---- MODULE Spec2Model ----
(***************************************************************************)
(* Page-load metrics handler of the trace engine                           *)
(* (front_end/models/trace/handlers/PageLoadMetricsHandler.ts).            *)
(*                                                                         *)
(* The handler buffers page-load events while a trace is streamed          *)
(* (handleEvent) and, in finalize, attributes each buffered event to a     *)
(* navigation, stores one MetricScore per (frame, navigation, metric),     *)
(* selects the final LCP candidate, estimates TBT where no InteractiveTime *)
(* event reported it, and publishes the main frame's marker events.        *)
(*                                                                         *)
(* JavaScript maps iterate in insertion order, so every Map of the handler *)
(* is a sequence of [key, val] entries here.  finalize has no await, so it *)
(* runs to completion without interleaving; the model walks through it     *)
(* with pc and enables no other operation while pc # "idle".               *)
(***************************************************************************)
EXTENDS Integers, Sequences, FiniteSets, TLC

VARIABLES
  trace,                      \* the name of the trace that is streamed: its events are fed,
                              \* each at most once between two resets, in any order
  fed,                        \* history: every event handed to handleEvent since the last reset
  pageLoadEventsArray,        \* the buffer (line 48)
  metricScoresByFrameId,      \* frame -> navigation -> metric -> MetricScore (line 32)
  allMarkerEvents,            \* the published marker sequence (line 39)
  selectedLCPCandidateEvents, \* the selected LCP candidates (line 58)
  pc,                         \* position inside finalize: idle, scoring, markers
  cursor,                     \* index of the buffered event the scoring loop handles next
  outcome,                    \* how the last finalize ended: none, ok, failed
  finalizeCalls,              \* finalize calls since the last reset
  fedAtFinalize,              \* history: how many events had been fed when finalize last began
  probe,                      \* the duration handed to the scorers and what they returned
  atFinalize,                 \* history: what the handler held when finalize last began
  resetAfterFailure,          \* history: the last reset was called after a failed finalize
                              \* that had left scores in the table
  snapshot,                   \* the object a caller got from data(), if it got one
  upstream,                   \* the handlers of deps() that have finalized, and the data
                              \* that metaHandlerData() and rendererHandlerData() return
  timeline,                   \* the last call of getFirstFCPTimestampFromModelData
  resources,                  \* the urls of the resources of TestRunner.resourceTreeModel
  resourceURLs,               \* the urls runAfterResourcesAreFinished was called with
  resourceURLsMap,            \* its set of urls that no resource has matched yet
  listening,                  \* checkResources is a listener of ResourceAdded
  callbackRuns,               \* how often the callback was invoked
  runner,                     \* where runAfterResourcesAreFinished is: idle, waiting,
                              \* callback (the callback is running), done
  seen                        \* history: the urls the tree held when
                              \* runAfterResourcesAreFinished was called, the urls added
                              \* since, in order, and how many had been added when the
                              \* callback was invoked

\* The state beside the handler, its caller and its upstream handlers: the
\* call of getFirstFCPTimestampFromModelData and the test runner.
testRunnerVars ==
  <<resources, resourceURLs, resourceURLsMap, listening, callbackRuns, runner, seen>>

besideHandler == <<timeline, testRunnerVars>>

vars == <<trace, fed, pageLoadEventsArray, metricScoresByFrameId, allMarkerEvents,
          selectedLCPCandidateEvents, pc, cursor, outcome, finalizeCalls, fedAtFinalize,
          probe, atFinalize, resetAfterFailure, snapshot, upstream, besideHandler>>

\* The handler, its caller and its upstream handlers.
handlerSide ==
  <<trace, fed, pageLoadEventsArray, metricScoresByFrameId, allMarkerEvents,
    selectedLCPCandidateEvents, pc, cursor, outcome, finalizeCalls, fedAtFinalize,
    probe, atFinalize, resetAfterFailure, snapshot, upstream>>

handlerVars == <<pageLoadEventsArray, metricScoresByFrameId, allMarkerEvents,
                 selectedLCPCandidateEvents>>

----------------------------------------------------------------------------
(* Bounds of the model.                                                    *)

\* handleEvent calls between two resets.
MaxEvents == 3

\* finalize calls between two resets.
MaxFinalize == 2

\* The scorers are probed with the durations k * ProbeStep, k <= MaxProbe,
\* and with every threshold, one microsecond less and one microsecond more.
MaxProbe == 100

\* A caller edits the object it got from data() at most this often.
MaxEdits == 1

\* runAfterResourcesAreFinished is called with at most this many urls.
MaxUrls == 2

\* ResourceAdded events after runAfterResourcesAreFinished was called.
MaxAdded == 3

----------------------------------------------------------------------------
(* Absent values.  `!x` in the source is true for undefined and for "",    *)
(* and, for a number, for undefined and for 0.                             *)

NoId == "undefined"
NoIndex == -1

(* Event names. *)
MarkDOMContent == "MarkDOMContent"
MarkLoad == "MarkLoad"
FirstPaint == "firstPaint"
FirstContentfulPaint == "firstContentfulPaint"
LargestContentfulPaintCandidate == "largestContentfulPaint::Candidate"
InteractiveTime == "InteractiveTime"
LayoutShift == "LayoutShift"
RunTask == "RunTask"

\* A trace event.  frame is args.frame, or args.data.frame for MarkDOMContent
\* and MarkLoad; id is the identity of the event object.
Event(id, name, ts, pid, frame, navigationId, candidateIndex, tbtMs) ==
  [id |-> id, name |-> name, ts |-> ts, pid |-> pid, frame |-> frame,
   navigationId |-> navigationId, candidateIndex |-> candidateIndex,
   total_blocking_time_ms |-> tbtMs]

\* The event slot of a MetricScore that has no source event.
NoEvent == Event(0, "none", 0, NoId, NoId, NoId, NoIndex, 0)

\* The navigation slot of a lookup that found nothing.
NoNavigation == [navigationId |-> NoId, ts |-> 0, frame |-> NoId]

----------------------------------------------------------------------------
(* Insertion-ordered maps: sequences of [key, val].                        *)

MapHas(m, k) == \E i \in DOMAIN m : m[i].key = k

MapGet(m, k) == m[CHOOSE i \in DOMAIN m : m[i].key = k].val

MapKeys(m) == {m[i].key : i \in DOMAIN m}

\* Map.prototype.delete
MapDelete(m, k) == SelectSeq(m, LAMBDA x : x.key # k)

\* Map.prototype.set: an existing key keeps its place, a new key goes last.
MapSet(m, k, v) ==
  IF MapHas(m, k)
    THEN [i \in DOMAIN m |-> IF m[i].key = k THEN [key |-> k, val |-> v] ELSE m[i]]
    ELSE Append(m, [key |-> k, val |-> v])

\* Platform.MapUtilities.getWithDefault: the map after the call (the key is
\* inserted with the default when absent).
WithDefault(m, k, d) == IF MapHas(m, k) THEN m ELSE Append(m, [key |-> k, val |-> d])

----------------------------------------------------------------------------
(* Event classifier (lines 60-87).                                         *)

MarkerName ==
  <<MarkDOMContent, MarkLoad, FirstPaint, FirstContentfulPaint, LargestContentfulPaintCandidate>>

\* One type guard per marker name: guard i accepts the events named MarkerName[i].
markerTypeGuards == MarkerName

\* Mutant: LayoutShift counted among the page-load events.
pageLoadEventTypeGuards_WithLayoutShift == markerTypeGuards \o <<InteractiveTime, LayoutShift>>

pageLoadEventTypeGuards == markerTypeGuards \o <<InteractiveTime>>

IsTraceEventMarkerEvent(event) ==
  \E i \in DOMAIN markerTypeGuards : event.name = markerTypeGuards[i]

EventIsPageLoadEvent(event) ==
  \E i \in DOMAIN pageLoadEventTypeGuards : event.name = pageLoadEventTypeGuards[i]

----------------------------------------------------------------------------
(* Metric scorer (lines 449-526, 597-621).                                 *)

GOOD == "good"
OK == "ok"
BAD == "bad"
UNCLASSIFIED == "unclassified"

FCP == "FCP"
FP == "FP"
L == "L"
LCP == "LCP"
DCL == "DCL"
TTI == "TTI"
TBT == "TBT"

SecondsToMicroseconds(tenths) == tenths * 100000
MillisecondsToMicroseconds(ms) == ms * 1000

FCP_GOOD_TIMING == SecondsToMicroseconds(18)
FCP_MEDIUM_TIMING == SecondsToMicroseconds(30)
TTI_GOOD_TIMING == SecondsToMicroseconds(38)
TTI_MEDIUM_TIMING == SecondsToMicroseconds(73)
LCP_GOOD_TIMING == SecondsToMicroseconds(25)
LCP_MEDIUM_TIMING == SecondsToMicroseconds(40)
TBT_GOOD_TIMING == MillisecondsToMicroseconds(200)
TBT_MEDIUM_TIMING == MillisecondsToMicroseconds(600)
LONG_TASK_THRESHOLD == MillisecondsToMicroseconds(50)

\* Mutant: exclusive bounds.
Classify_Exclusive(time, good, medium) ==
  LET afterMedium == IF time < medium THEN OK ELSE BAD
  IN  IF time < good THEN GOOD ELSE afterMedium

\* The scorers all have this shape: start from BAD, overwrite with OK when
\* the time is within the medium bound, then with GOOD when within the good one.
Classify(time, good, medium) ==
  LET afterMedium == IF time <= medium THEN OK ELSE BAD
  IN  IF time <= good THEN GOOD ELSE afterMedium

scoreClassificationForFirstContentfulPaint(t) == Classify(t, FCP_GOOD_TIMING, FCP_MEDIUM_TIMING)

scoreClassificationForTimeToInteractive(t) == Classify(t, TTI_GOOD_TIMING, TTI_MEDIUM_TIMING)

scoreClassificationForLargestContentfulPaint(t) == Classify(t, LCP_GOOD_TIMING, LCP_MEDIUM_TIMING)

\* Mutant: DCL is classified with the bounds of FCP.
scoreClassificationForDOMContentLoaded_Banded(t) ==
  Classify(t, FCP_GOOD_TIMING, FCP_MEDIUM_TIMING)

scoreClassificationForDOMContentLoaded(t) == UNCLASSIFIED

scoreClassificationForTotalBlockingTime(t) == Classify(t, TBT_GOOD_TIMING, TBT_MEDIUM_TIMING)

\* Helpers.Timing.formatMicrosecondsTime with maximumFractionDigits 2: the
\* time in the unit, rounded to hundredths of the unit.
FormatSeconds(us) == [unit |-> "s", hundredths |-> (us + 5000) \div 10000]

FormatMilliseconds(us) == [unit |-> "ms", hundredths |-> (us + 5) \div 10]

\* A MetricScore (lines 623-631); estimated unset is FALSE, a missing event is NoEvent.
MetricScore(metricName, score, classification, event, navigation, estimated) ==
  [metricName |-> metricName, score |-> score, classification |-> classification,
   event |-> event, navigation |-> navigation, estimated |-> estimated]

----------------------------------------------------------------------------
(* The metric table (lines 32-33, 269-277).                                *)

\* Mutant: the entry of the metric is set where it is, without the delete.
StoreMetricScore_InPlace(table, frameId, navigationId, metricScore) ==
  LET withFrame == WithDefault(table, frameId, <<>>)
      metricsByNavigation == WithDefault(MapGet(withFrame, frameId), navigationId, <<>>)
      metrics == MapGet(metricsByNavigation, navigationId)
      updated == MapSet(metrics, metricScore.metricName, metricScore)
  IN  MapSet(withFrame, frameId, MapSet(metricsByNavigation, navigationId, updated))

\* storeMetricScore: the entry of the metric is deleted and set again, so it
\* moves to the end of the navigation's metric map.
StoreMetricScore(table, frameId, navigationId, metricScore) ==
  LET withFrame == WithDefault(table, frameId, <<>>)
      metricsByNavigation == WithDefault(MapGet(withFrame, frameId), navigationId, <<>>)
      metrics == MapGet(metricsByNavigation, navigationId)
      updated == MapSet(MapDelete(metrics, metricScore.metricName),
                        metricScore.metricName, metricScore)
  IN  MapSet(withFrame, frameId, MapSet(metricsByNavigation, navigationId, updated))

\* The metric map of (frameId, navigationId); empty when there is none.
MetricsOf(table, frameId, navigationId) ==
  IF MapHas(table, frameId) /\ MapHas(MapGet(table, frameId), navigationId)
    THEN MapGet(MapGet(table, frameId), navigationId)
    ELSE <<>>

\* The (frame, navigation) pairs of the table, in iteration order.
RECURSIVE PairsFrom(_, _)
PairsFrom(table, i) ==
  IF i > Len(table) THEN <<>>
  ELSE [j \in DOMAIN table[i].val |-> <<table[i].key, table[i].val[j].key>>]
       \o PairsFrom(table, i + 1)

TablePairs(table) == PairsFrom(table, 1)

----------------------------------------------------------------------------
(* Resolution of an event's frame and navigation (lines 279-323).          *)

\* Mutant: a missing frame id is handed on as it is.
GetFrameIdForPageLoadEvent_Lenient(event) == [threw |-> FALSE, frameId |-> event.frame]

\* getFrameIdForPageLoadEvent: [threw, frameId].
GetFrameIdForPageLoadEvent(event) ==
  IF event.name \in {MarkDOMContent, MarkLoad} /\ event.frame = NoId
    THEN [threw |-> TRUE, frameId |-> NoId]
    ELSE [threw |-> FALSE, frameId |-> event.frame]

\* Helpers.Trace.getNavigationForTraceEvent: the last navigation of the frame
\* that started at or before the event; none when the frame has no navigation
\* or all of them started later.
GetNavigationForTraceEvent(event, frameId, navigationsByFrameId) ==
  IF frameId \notin DOMAIN navigationsByFrameId
    THEN [found |-> FALSE, navigation |-> NoNavigation]
    ELSE LET navigations == navigationsByFrameId[frameId]
             started == {i \in DOMAIN navigations : navigations[i].ts <= event.ts}
         IN  IF started = {}
               THEN [found |-> FALSE, navigation |-> NoNavigation]
               ELSE [found |-> TRUE,
                     navigation |-> navigations[CHOOSE i \in started : \A j \in started : j <= i]]

\* Mutant: a navigation that Meta does not hold is an error.
GetNavigationForPageLoadEvent_Strict(meta, event) ==
  IF event.name \in {FirstContentfulPaint, LargestContentfulPaintCandidate, FirstPaint}
    THEN IF event.navigationId \notin DOMAIN meta.navigationsByNavigationId
           THEN [threw |-> TRUE, found |-> FALSE, navigation |-> NoNavigation]
           ELSE [threw |-> FALSE, found |-> TRUE,
                 navigation |-> meta.navigationsByNavigationId[event.navigationId]]
    ELSE LET frame == GetFrameIdForPageLoadEvent(event)
             nav == GetNavigationForTraceEvent(event, frame.frameId, meta.navigationsByFrameId)
         IN  [threw |-> frame.threw \/ ~nav.found, found |-> nav.found,
              navigation |-> nav.navigation]

\* getNavigationForPageLoadEvent: [threw, found, navigation].
GetNavigationForPageLoadEvent(meta, event) ==
  IF event.name \in {FirstContentfulPaint, LargestContentfulPaintCandidate, FirstPaint}
    THEN IF event.navigationId = NoId
           THEN [threw |-> TRUE, found |-> FALSE, navigation |-> NoNavigation]
           ELSE IF event.navigationId \notin DOMAIN meta.navigationsByNavigationId
                  THEN [threw |-> FALSE, found |-> FALSE, navigation |-> NoNavigation]
                  ELSE [threw |-> FALSE, found |-> TRUE,
                        navigation |-> meta.navigationsByNavigationId[event.navigationId]]
    ELSE LET frame == GetFrameIdForPageLoadEvent(event)
         IN  IF frame.threw
               THEN [threw |-> TRUE, found |-> FALSE, navigation |-> NoNavigation]
               ELSE LET nav == GetNavigationForTraceEvent(event, frame.frameId,
                                                          meta.navigationsByFrameId)
                    IN  [threw |-> FALSE, found |-> nav.found, navigation |-> nav.navigation]

\* Mutant: the end of the window is not looked at.
EventBelongsToProcess_NoUpperBound(meta, frameId, event) ==
  /\ frameId \in DOMAIN meta.rendererProcessesByFrame
  /\ event.pid \in DOMAIN meta.rendererProcessesByFrame[frameId]
  /\ event.ts >= meta.rendererProcessesByFrame[frameId][event.pid].min

\* Lines 111-127: Meta has an activity window for the event's frame and
\* process, and the event lies inside it.
EventBelongsToProcess(meta, frameId, event) ==
  /\ frameId \in DOMAIN meta.rendererProcessesByFrame
  /\ event.pid \in DOMAIN meta.rendererProcessesByFrame[frameId]
  /\ LET window == meta.rendererProcessesByFrame[frameId][event.pid]
     IN  event.ts >= window.min /\ event.ts <= window.max

----------------------------------------------------------------------------
(* Scoring of one buffered event (lines 96-267).                           *)

\* What a step of finalize leaves behind: whether it threw, the metric
\* table and the selected LCP candidates.
Outcome(threw, table, lcpSet) == [threw |-> threw, table |-> table, lcpSet |-> lcpSet]

\* Mutant: no index counts as missing.
IndexMissing_Never(candidateIndex) == FALSE

\* `!candidateIndex` (lines 221, 250)
IndexMissing(candidateIndex) == candidateIndex = NoIndex \/ candidateIndex = 0

\* Mutant: an equal index supersedes too.
Supersedes_OrEqual(lastCandidateIndex, candidateIndex) == lastCandidateIndex <= candidateIndex

\* Line 256: the stored candidate gives way to the new one.
Supersedes(lastCandidateIndex, candidateIndex) == lastCandidateIndex < candidateIndex

\* Mutant: the superseded candidate stays selected.
Reselect_KeepsLast(lcpSet, lastLCPCandidateEvent, event) == lcpSet \cup {event}

\* Lines 257-258: the superseded candidate leaves the set, the new one enters.
Reselect(lcpSet, lastLCPCandidateEvent, event) ==
  (lcpSet \ {lastLCPCandidateEvent}) \cup {event}

\* Mutant: the score of an event is marked as an estimate.
ElapsedScore_Estimated(metricName, classification, navigation, event) ==
  MetricScore(metricName, FormatSeconds(event.ts - navigation.ts), classification,
              event, navigation, TRUE)

\* Lines 129-168, 202-217: a score of the time since the navigation started.
ElapsedScore(metricName, classification, navigation, event) ==
  MetricScore(metricName, FormatSeconds(event.ts - navigation.ts), classification,
              event, navigation, FALSE)

\* Mutant: the reported blocking time is taken for microseconds.
StoreInteractiveTime_Unconverted(table, frameId, navigationId, navigation, event) ==
  LET ttiValue == event.ts - navigation.ts
      tti == MetricScore(TTI, FormatSeconds(ttiValue),
                         scoreClassificationForTimeToInteractive(ttiValue),
                         event, navigation, FALSE)
      tbtValue == event.total_blocking_time_ms
      tbt == MetricScore(TBT, FormatMilliseconds(tbtValue),
                         scoreClassificationForTotalBlockingTime(tbtValue),
                         event, navigation, FALSE)
  IN  StoreMetricScore(StoreMetricScore(table, frameId, navigationId, tti),
                       frameId, navigationId, tbt)

\* Mutant: TBT is stored first, then TTI.
StoreInteractiveTime_TBTFirst(table, frameId, navigationId, navigation, event) ==
  LET ttiValue == event.ts - navigation.ts
      tti == MetricScore(TTI, FormatSeconds(ttiValue),
                         scoreClassificationForTimeToInteractive(ttiValue),
                         event, navigation, FALSE)
      tbtValue == MillisecondsToMicroseconds(event.total_blocking_time_ms)
      tbt == MetricScore(TBT, FormatMilliseconds(tbtValue),
                         scoreClassificationForTotalBlockingTime(tbtValue),
                         event, navigation, FALSE)
  IN  StoreMetricScore(StoreMetricScore(table, frameId, navigationId, tbt),
                       frameId, navigationId, tti)

\* Lines 170-200: an InteractiveTime event stores TTI, then TBT.
StoreInteractiveTime(table, frameId, navigationId, navigation, event) ==
  LET ttiValue == event.ts - navigation.ts
      tti == MetricScore(TTI, FormatSeconds(ttiValue),
                         scoreClassificationForTimeToInteractive(ttiValue),
                         event, navigation, FALSE)
      tbtValue == MillisecondsToMicroseconds(event.total_blocking_time_ms)
      tbt == MetricScore(TBT, FormatMilliseconds(tbtValue),
                         scoreClassificationForTotalBlockingTime(tbtValue),
                         event, navigation, FALSE)
  IN  StoreMetricScore(StoreMetricScore(table, frameId, navigationId, tti),
                       frameId, navigationId, tbt)

\* Lines 219-262: an LCP candidate is stored when the navigation has no LCP
\* score yet or when it supersedes the stored candidate.
StoreLCPCandidate(table, lcpSet, frameId, navigationId, navigation, event) ==
  IF IndexMissing(event.candidateIndex) THEN Outcome(TRUE, table, lcpSet)
  ELSE
    LET lcpTime == event.ts - navigation.ts
        lcp == MetricScore(LCP, FormatSeconds(lcpTime),
                           scoreClassificationForLargestContentfulPaint(lcpTime),
                           event, navigation, FALSE)
        withFrame == WithDefault(table, frameId, <<>>)
        withNavigation ==
          MapSet(withFrame, frameId,
                 WithDefault(MapGet(withFrame, frameId), navigationId, <<>>))
        metrics == MapGet(MapGet(withNavigation, frameId), navigationId)
    IN  IF ~MapHas(metrics, LCP)
          THEN Outcome(FALSE, StoreMetricScore(withNavigation, frameId, navigationId, lcp),
                       lcpSet \cup {event})
          ELSE
            LET lastLCPCandidateEvent == MapGet(metrics, LCP).event
            IN  IF lastLCPCandidateEvent.name # LargestContentfulPaintCandidate
                  THEN Outcome(FALSE, withNavigation, lcpSet)
                ELSE IF IndexMissing(lastLCPCandidateEvent.candidateIndex)
                  THEN Outcome(FALSE, withNavigation, lcpSet)
                ELSE IF Supersedes(lastLCPCandidateEvent.candidateIndex, event.candidateIndex)
                  THEN Outcome(FALSE,
                               StoreMetricScore(withNavigation, frameId, navigationId, lcp),
                               Reselect(lcpSet, lastLCPCandidateEvent, event))
                ELSE Outcome(FALSE, withNavigation, lcpSet)

\* storePageLoadMetricAgainstNavigationId
StorePageLoadMetricAgainstNavigationId(meta, table, lcpSet, navigation, event) ==
  LET navigationId == navigation.navigationId
      frame == GetFrameIdForPageLoadEvent(event)
      frameId == frame.frameId
      Store(score) == Outcome(FALSE, StoreMetricScore(table, frameId, navigationId, score), lcpSet)
  IN  IF navigationId = NoId \/ frame.threw THEN Outcome(TRUE, table, lcpSet)
      ELSE IF ~EventBelongsToProcess(meta, frameId, event) THEN Outcome(FALSE, table, lcpSet)
      ELSE IF event.name = FirstContentfulPaint
        THEN Store(ElapsedScore(FCP, scoreClassificationForFirstContentfulPaint(
                                       event.ts - navigation.ts), navigation, event))
      ELSE IF event.name = FirstPaint
        THEN Store(ElapsedScore(FP, UNCLASSIFIED, navigation, event))
      ELSE IF event.name = MarkDOMContent
        THEN Store(ElapsedScore(DCL, scoreClassificationForDOMContentLoaded(
                                       event.ts - navigation.ts), navigation, event))
      ELSE IF event.name = InteractiveTime
        THEN Outcome(FALSE, StoreInteractiveTime(table, frameId, navigationId, navigation, event),
                     lcpSet)
      ELSE IF event.name = MarkLoad
        THEN Store(ElapsedScore(L, UNCLASSIFIED, navigation, event))
      ELSE IF event.name = LargestContentfulPaintCandidate
        THEN StoreLCPCandidate(table, lcpSet, frameId, navigationId, navigation, event)
      ELSE IF event.name = LayoutShift
        THEN Outcome(FALSE, table, lcpSet)
      ELSE Outcome(TRUE, table, lcpSet)   \* Platform.assertNever

\* The body of finalize's loop (lines 551-557) for one event.
ScorePageLoadEvent(meta, table, lcpSet, event) ==
  LET nav == GetNavigationForPageLoadEvent(meta, event)
  IN  IF nav.threw THEN Outcome(TRUE, table, lcpSet)
      ELSE IF ~nav.found THEN Outcome(FALSE, table, lcpSet)
      ELSE StorePageLoadMetricAgainstNavigationId(meta, table, lcpSet, nav.navigation, event)

----------------------------------------------------------------------------
(* Estimation of TBT (lines 334-411).                                      *)

\* isTraceEventInstant
IsTraceEventInstant(task) == task.ph \in {"I", "i"}

\* Mutant: the part of the task before FCP is not clipped.
BlockingTimeOfTask_Unclipped(task, fcpTs) ==
  IF task.name # RunTask \/ IsTraceEventInstant(task) THEN 0
  ELSE IF task.ts + task.dur < fcpTs THEN 0
  ELSE IF task.dur > LONG_TASK_THRESHOLD THEN task.dur - LONG_TASK_THRESHOLD ELSE 0

\* Mutant: a task that starts more than a second after FCP adds nothing.
BlockingTimeOfTask_WithinOneSecond(task, fcpTs) ==
  IF task.name # RunTask \/ IsTraceEventInstant(task) THEN 0
  ELSE IF task.ts + task.dur < fcpTs \/ task.ts > fcpTs + 1000000 THEN 0
  ELSE LET timeAfterFCP == IF task.ts < fcpTs THEN fcpTs - task.ts ELSE 0
           clippedTaskDuration == task.dur - timeAfterFCP
       IN  IF clippedTaskDuration > LONG_TASK_THRESHOLD
             THEN clippedTaskDuration - LONG_TASK_THRESHOLD
             ELSE 0

\* Lines 379-393: what one root task adds to the estimate.
BlockingTimeOfTask(task, fcpTs) ==
  IF task.name # RunTask \/ IsTraceEventInstant(task) THEN 0
  ELSE IF task.ts + task.dur < fcpTs THEN 0
  ELSE LET timeAfterFCP == IF task.ts < fcpTs THEN fcpTs - task.ts ELSE 0
           clippedTaskDuration == task.dur - timeAfterFCP
       IN  IF clippedTaskDuration > LONG_TASK_THRESHOLD
             THEN clippedTaskDuration - LONG_TASK_THRESHOLD
             ELSE 0

\* Mutant: a root without node and a node without event are passed over.
RECURSIVE SumRootTasks_SkipsMissing(_, _, _, _)
SumRootTasks_SkipsMissing(mainThread, fcpTs, i, tbt) ==
  IF i > Len(mainThread.tree.roots) THEN [threw |-> FALSE, tbt |-> tbt]
  ELSE LET rootId == mainThread.tree.roots[i]
           known == /\ rootId \in DOMAIN mainThread.tree.nodes
                    /\ mainThread.tree.nodes[rootId].eventIndex + 1 \in DOMAIN mainThread.events
           task == mainThread.events[mainThread.tree.nodes[rootId].eventIndex + 1]
       IN  SumRootTasks_SkipsMissing(mainThread, fcpTs, i + 1,
             IF known THEN tbt + BlockingTimeOfTask(task, fcpTs) ELSE tbt)

\* Lines 369-394: the loop over the roots of the main thread's tree, from
\* root i on: [threw, tbt].
RECURSIVE SumRootTasks(_, _, _, _)
SumRootTasks(mainThread, fcpTs, i, tbt) ==
  IF i > Len(mainThread.tree.roots) THEN [threw |-> FALSE, tbt |-> tbt]
  ELSE LET rootId == mainThread.tree.roots[i]
       IN  IF rootId \notin DOMAIN mainThread.tree.nodes
             THEN [threw |-> TRUE, tbt |-> tbt]
           ELSE LET eventIndex == mainThread.tree.nodes[rootId].eventIndex
                IN  IF eventIndex + 1 \notin DOMAIN mainThread.events
                      THEN [threw |-> TRUE, tbt |-> tbt]
                      ELSE SumRootTasks(mainThread, fcpTs, i + 1,
                             tbt + BlockingTimeOfTask(mainThread.events[eventIndex + 1], fcpTs))

\* Mutant: a reported TBT does not stop the estimate.
NeedsEstimate_IgnoresReported(metrics) == MapHas(metrics, FCP)

\* Lines 339-346: no TBT was reported for the navigation, and FCP was reached.
NeedsEstimate(metrics) == ~(MapHas(metrics, TBT) \/ ~MapHas(metrics, FCP))

\* Lines 339-408 for one (frame, navigation) pair: [threw, table].
EstimateForPair(processes, table, frameId, navigationId) ==
  LET metrics == MetricsOf(table, frameId, navigationId)
      Skip == [threw |-> FALSE, table |-> table]
      Throw == [threw |-> TRUE, table |-> table]
  IN  IF ~NeedsEstimate(metrics) THEN Skip
      ELSE LET navigationFCP == MapGet(metrics, FCP)
           IN  IF navigationFCP.event = NoEvent THEN Skip
               ELSE IF navigationFCP.event.pid \notin DOMAIN processes THEN Skip
               ELSE
                 LET threads == processes[navigationFCP.event.pid].threads
                     named == {i \in DOMAIN threads : threads[i].name = "CrRendererMain"}
                 IN  IF named = {} THEN Throw
                     ELSE
                       LET mainThread == threads[CHOOSE i \in named : \A j \in named : i <= j]
                       IN  IF ~mainThread.tree.defined THEN Throw
                           ELSE
                             LET sum == SumRootTasks(mainThread, navigationFCP.event.ts, 1, 0)
                                 tbtMetric ==
                                   MetricScore(TBT, FormatMilliseconds(sum.tbt),
                                               scoreClassificationForTotalBlockingTime(sum.tbt),
                                               NoEvent, navigationFCP.navigation, TRUE)
                             IN  IF sum.threw THEN Throw
                                 ELSE [threw |-> FALSE,
                                       table |-> StoreMetricScore(table, frameId, navigationId,
                                                                  tbtMetric)]

\* estimateTotalBlockingTimes over the pairs from position i on; the loops
\* iterate the frame and navigation maps, whose keys the body never changes.
RECURSIVE EstimateFrom(_, _, _, _)
EstimateFrom(processes, table, pairs, i) ==
  IF i > Len(pairs) THEN [threw |-> FALSE, table |-> table]
  ELSE LET one == EstimateForPair(processes, table, pairs[i][1], pairs[i][2])
       IN  IF one.threw THEN one ELSE EstimateFrom(processes, one.table, pairs, i + 1)

EstimateTotalBlockingTimes(processes, table) ==
  EstimateFrom(processes, table, TablePairs(table), 1)

----------------------------------------------------------------------------
(* Marker assembly (lines 532-568).                                        *)

\* Mutant: the array is left in the order it is in.
SortByTs_Unsorted(events) == events

\* Mutant: ascending, with events of one timestamp in reverse order.
RECURSIVE SortByTs_TiesReversed(_)
SortByTs_TiesReversed(events) ==
  IF events = <<>> THEN <<>>
  ELSE LET last == events[Len(events)]
           rest == SortByTs_TiesReversed(SubSeq(events, 1, Len(events) - 1))
           before == SelectSeq(rest, LAMBDA e : e.ts < last.ts)
           after == SelectSeq(rest, LAMBDA e : e.ts >= last.ts)
       IN  before \o <<last>> \o after

\* Array.prototype.sort((a, b) => a.ts - b.ts): stable, ascending.
RECURSIVE SortByTs(_)
SortByTs(events) ==
  IF events = <<>> THEN <<>>
  ELSE LET last == events[Len(events)]
           rest == SortByTs(SubSeq(events, 1, Len(events) - 1))
           before == SelectSeq(rest, LAMBDA e : e.ts <= last.ts)
           after == SelectSeq(rest, LAMBDA e : e.ts > last.ts)
       IN  before \o <<last>> \o after

\* gatherFinalLCPEvents: the source event of every LCP score, by frame and
\* navigation in map order.
GatherFinalLCPEvents(table) ==
  LET pairs == TablePairs(table)
      HasLCP(pair) == LET metrics == MetricsOf(table, pair[1], pair[2])
                      IN  MapHas(metrics, LCP) /\ MapGet(metrics, LCP).event # NoEvent
      withLCP == SelectSeq(pairs, HasLCP)
  IN  [i \in DOMAIN withLCP |-> MapGet(MetricsOf(table, withLCP[i][1], withLCP[i][2]), LCP).event]

\* Mutant: events of every frame pass.
InMainFrame_AnyFrame(event, mainFrame) == TRUE

\* Line 567: the events of the main frame.
InMainFrame(event, mainFrame) == GetFrameIdForPageLoadEvent(event).frameId = mainFrame

\* Mutant: the markers are left in the order they were gathered in.
SortMarkers_Unsorted(events) == events

\* Line 567: the order of the published sequence.
SortMarkers(events) == SortByTs(events)

\* Mutant: every buffered LCP candidate is taken, not the final ones only.
MarkerEvents_EveryCandidate(meta, table, buffer) ==
  LET markerEvents == SelectSeq(buffer, IsTraceEventMarkerEvent)
      threw == \E i \in DOMAIN markerEvents : GetFrameIdForPageLoadEvent(markerEvents[i]).threw
  IN  [threw |-> threw,
       markers |-> IF threw THEN <<>>
                   ELSE SortMarkers(SelectSeq(markerEvents,
                                              LAMBDA e : InMainFrame(e, meta.mainFrameId)))]

\* Lines 559-567: [threw, markers].
MarkerEvents(meta, table, buffer) ==
  LET allFinalLCPEvents == GatherFinalLCPEvents(table)
      allEventsButLCP == SelectSeq(buffer, LAMBDA e : e.name # LargestContentfulPaintCandidate)
      markerEvents == SelectSeq(allFinalLCPEvents \o allEventsButLCP, IsTraceEventMarkerEvent)
      threw == \E i \in DOMAIN markerEvents : GetFrameIdForPageLoadEvent(markerEvents[i]).threw
  IN  [threw |-> threw,
       markers |-> IF threw THEN <<>>
                   ELSE SortMarkers(SelectSeq(markerEvents,
                                              LAMBDA e : InMainFrame(e, meta.mainFrameId)))]

----------------------------------------------------------------------------
(* The data of the upstream handlers, and the traces the model feeds.      *)

NavigationStart(navigationId, ts, frame) ==
  [navigationId |-> navigationId, ts |-> ts, frame |-> frame]

Nav1 == NavigationStart("n1", 0, "f1")
Nav2 == NavigationStart("n2", 5000000, "f1")
Nav3 == NavigationStart("n3", 500000, "f2")

Window(min, max) == [min |-> min, max |-> max]

\* Meta: main frame f1 with two navigations, a child frame f2 with one.
\* Process p3 is known to Meta and unknown to Renderer; navigation "nX" and
\* process "p9" are unknown to Meta.
MetaData ==
  [mainFrameId |-> "f1",
   navigationsByNavigationId |-> [n1 |-> Nav1, n2 |-> Nav2, n3 |-> Nav3],
   navigationsByFrameId |-> [f1 |-> <<Nav1, Nav2>>, f2 |-> <<Nav3>>],
   rendererProcessesByFrame |->
     [f1 |-> [p1 |-> Window(0, 8000000), p2 |-> Window(0, 8000000),
              p4 |-> Window(0, 8000000), p5 |-> Window(0, 8000000),
              p6 |-> Window(0, 8000000), p7 |-> Window(0, 8000000)],
      f2 |-> [p1 |-> Window(0, 8000000), p3 |-> Window(0, 8000000)]]]

Task(name, ph, ts, dur) == [name |-> name, ph |-> ph, ts |-> ts, dur |-> dur]

Tree(roots, nodes) == [defined |-> TRUE, roots |-> roots, nodes |-> nodes]

\* A thread without call tree (`tree` is optional).
NoTree == [defined |-> FALSE, roots |-> <<>>, nodes |-> <<>>]

Thread(name, events, tree) == [name |-> name, events |-> events, tree |-> tree]

\* The main thread of p1.  Node i is the node of event i (index i - 1);
\* node 4 is a child of node 3 and so is no root.
MainThreadP1 ==
  Thread("CrRendererMain",
         << Task(RunTask, "X", 100000, 300000),     \* ends before every FCP
            Task(RunTask, "X", 900000, 200000),     \* spans an FCP at 1,000,000
            Task(RunTask, "X", 1050000, 200000),
            Task(RunTask, "X", 1060000, 100000),    \* child of the task before
            Task("EvaluateScript", "X", 1300000, 500000),
            Task(RunTask, "I", 1400000, 0),         \* instant
            Task(RunTask, "X", 2000000, 50000),     \* exactly the threshold
            Task(RunTask, "X", 5900000, 400000) >>, \* spans an FCP at 6,000,000
         Tree(<<1, 2, 3, 5, 6, 7, 8>>, [i \in 1..8 |-> [eventIndex |-> i - 1]]))

\* The main thread of p2: one task of 200 ms that starts at 1,050,000.
MainThreadP2 ==
  Thread("CrRendererMain", << Task(RunTask, "X", 1050000, 200000) >>,
         Tree(<<1>>, [i \in 1..1 |-> [eventIndex |-> 0]]))

\* The main thread of p5 has no call tree.
MainThreadP5 ==
  Thread("CrRendererMain", << Task(RunTask, "X", 1050000, 200000) >>, NoTree)

\* The tree of the main thread of p6 names a root, 2, that has no node.
MainThreadP6 ==
  Thread("CrRendererMain", << Task(RunTask, "X", 1050000, 200000) >>,
         Tree(<<1, 2>>, [i \in 1..1 |-> [eventIndex |-> 0]]))

\* The second root of the main thread of p7 has a node whose index, 3, is
\* past the events of the thread.
MainThreadP7 ==
  Thread("CrRendererMain", << Task(RunTask, "X", 1050000, 200000) >>,
         Tree(<<1, 2>>, [i \in 1..2 |-> [eventIndex |-> IF i = 1 THEN 0 ELSE 3]]))

\* Renderer: p1 and p2 have a main thread; p4 has a worker thread only;
\* p5, p6 and p7 have a main thread whose data is incomplete.
RendererData ==
  [processes |->
     [p1 |-> [threads |-> << Thread("Compositor", <<>>, Tree(<<>>, <<>>)), MainThreadP1 >>],
      p2 |-> [threads |-> << MainThreadP2 >>],
      p4 |-> [threads |-> << Thread("DedicatedWorker", <<>>, Tree(<<>>, <<>>)) >>],
      p5 |-> [threads |-> << MainThreadP5 >>],
      p6 |-> [threads |-> << MainThreadP6 >>],
      p7 |-> [threads |-> << MainThreadP7 >>]]]

\* LCP candidates of (f1, n1) whose indices and timestamps disagree, one of
\* another frame, one outside its process's window, and one of a frame that
\* Meta has no record of.
LCPEvents ==
  { Event(1, LargestContentfulPaintCandidate, 3000000, "p1", "f1", "n1", 1, 0),
    Event(2, LargestContentfulPaintCandidate, 2000000, "p1", "f1", "n1", 3, 0),
    Event(3, LargestContentfulPaintCandidate, 2500000, "p1", "f1", "n1", 2, 0),
    Event(4, LargestContentfulPaintCandidate, 2500000, "p1", "f1", "n1", 3, 0),
    Event(5, LargestContentfulPaintCandidate, 1000000, "p1", "f2", "n3", 1, 0),
    Event(6, LargestContentfulPaintCandidate, 9000000, "p1", "f1", "n1", 4, 0),
    Event(7, LargestContentfulPaintCandidate, 2000000, "p1", "f3", "n1", 5, 0) }

\* FCP events of three processes and InteractiveTime events.
TBTEvents ==
  { Event(11, FirstContentfulPaint, 1000000, "p1", "f1", "n1", NoIndex, 0),
    Event(12, FirstContentfulPaint, 6000000, "p1", "f1", "n2", NoIndex, 0),
    Event(13, FirstContentfulPaint, 1000000, "p2", "f1", "n1", NoIndex, 0),
    Event(14, FirstContentfulPaint, 1200000, "p3", "f2", "n3", NoIndex, 0),
    Event(15, InteractiveTime, 4000000, "p1", "f1", NoId, NoIndex, 120),
    Event(16, InteractiveTime, 4500000, "p1", "f1", NoId, NoIndex, 700),
    Event(17, FirstContentfulPaint, 4200000, "p1", "f1", "n1", NoIndex, 0) }

\* Events of every kind, in two frames, scored and not scored.
MarkerSourceEvents ==
  { Event(21, MarkDOMContent, 1500000, "p1", "f1", NoId, NoIndex, 0),
    Event(22, MarkLoad, 1400000, "p1", "f2", NoId, NoIndex, 0),
    Event(23, FirstPaint, 800000, "p1", "f1", "nX", NoIndex, 0),
    Event(24, InteractiveTime, 4000000, "p1", "f1", NoId, NoIndex, 120),
    Event(25, LargestContentfulPaintCandidate, 2000000, "p1", "f1", "n1", 1, 0),
    Event(26, LargestContentfulPaintCandidate, 1000000, "p1", "f1", "n1", 2, 0),
    Event(27, LayoutShift, 1200000, "p1", "f1", NoId, NoIndex, 0),
    Event(28, "UpdateLayoutTree", 1000000, "p1", "f1", NoId, NoIndex, 0) }

\* LCP candidates without an index or with index 0, an event whose process
\* has no main thread, events that are dropped and one that is scored.
FaultyEvents ==
  { Event(31, LargestContentfulPaintCandidate, 2500000, "p1", "f1", "n1", NoIndex, 0),
    Event(32, LargestContentfulPaintCandidate, 2000000, "p1", "f1", "n1", 0, 0),
    Event(34, FirstContentfulPaint, 1000000, "p9", "f1", "n1", NoIndex, 0),
    Event(35, FirstContentfulPaint, 1300000, "p4", "f1", "n2", NoIndex, 0),
    Event(36, FirstContentfulPaint, 1000000, "p1", "f1", "n1", NoIndex, 0),
    Event(37, LargestContentfulPaintCandidate, 2000000, "p1", "f1", "nX", NoIndex, 0),
    Event(38, LargestContentfulPaintCandidate, 9000000, "p1", "f1", "n1", NoIndex, 0) }

\* Events whose navigation Meta does not hold or that no navigation of
\* their frame precedes, and events at and beyond the ends of the activity
\* window of their process.
LineageEvents ==
  { Event(41, FirstContentfulPaint, 1000000, "p1", "f1", "nX", NoIndex, 0),
    Event(42, LargestContentfulPaintCandidate, 2000000, "p1", "f1", "nX", 1, 0),
    Event(43, MarkLoad, 400000, "p1", "f2", NoId, NoIndex, 0),
    Event(44, MarkDOMContent, 1000000, "p1", "f3", NoId, NoIndex, 0),
    Event(45, FirstPaint, 8000000, "p1", "f1", "n1", NoIndex, 0),
    Event(46, FirstPaint, 8000001, "p1", "f1", "n1", NoIndex, 0),
    Event(47, MarkDOMContent, 0, "p1", "f1", NoId, NoIndex, 0),
    Event(48, InteractiveTime, 400000, "p1", "f2", NoId, NoIndex, 120) }

\* Events without the id their kind is resolved by, one of them of an
\* unknown process outside every window, and an event that is scored.
MalformedEvents ==
  { Event(51, FirstContentfulPaint, 1100000, "p1", "f1", NoId, NoIndex, 0),
    Event(52, FirstPaint, 9000000, "p9", "f1", NoId, NoIndex, 0),
    Event(53, LargestContentfulPaintCandidate, 2000000, "p1", "f1", NoId, 1, 0),
    Event(54, MarkDOMContent, 1500000, "p1", NoId, NoId, NoIndex, 0),
    Event(55, MarkLoad, 1600000, "p1", NoId, NoId, NoIndex, 0),
    Event(56, FirstContentfulPaint, 500000, "p1", "f1", "n1", NoIndex, 0) }

\* FCP events of processes whose main-thread data Renderer holds in part,
\* in full or not at all.
RendererEvents ==
  { Event(61, FirstContentfulPaint, 1100000, "p5", "f1", "n1", NoIndex, 0),
    Event(62, FirstContentfulPaint, 1200000, "p6", "f1", "n1", NoIndex, 0),
    Event(63, FirstContentfulPaint, 1300000, "p7", "f1", "n1", NoIndex, 0),
    Event(64, FirstContentfulPaint, 1400000, "p4", "f1", "n1", NoIndex, 0),
    Event(65, FirstContentfulPaint, 1000000, "p1", "f2", "n3", NoIndex, 0),
    Event(66, FirstContentfulPaint, 1600000, "p3", "f2", "n3", NoIndex, 0) }

\* The traces, by name; every trace comes with MetaData and RendererData.
Traces ==
  [lcp |-> LCPEvents, tbt |-> TBTEvents, markers |-> MarkerSourceEvents,
   faulty |-> FaultyEvents, lineage |-> LineageEvents, malformed |-> MalformedEvents,
   renderer |-> RendererEvents]

----------------------------------------------------------------------------
(* The scorers' probe.                                                     *)

ProbeOf(d) ==
  [d |-> d,
   fcp |-> scoreClassificationForFirstContentfulPaint(d),
   tti |-> scoreClassificationForTimeToInteractive(d),
   lcp |-> scoreClassificationForLargestContentfulPaint(d),
   tbt |-> scoreClassificationForTotalBlockingTime(d)]

Thresholds ==
  {FCP_GOOD_TIMING, FCP_MEDIUM_TIMING, TTI_GOOD_TIMING, TTI_MEDIUM_TIMING,
   LCP_GOOD_TIMING, LCP_MEDIUM_TIMING, TBT_GOOD_TIMING, TBT_MEDIUM_TIMING}

Durations ==
  {SecondsToMicroseconds(k) : k \in 0..MaxProbe}
    \cup {t - 1 : t \in Thresholds} \cup {t + 1 : t \in Thresholds}

----------------------------------------------------------------------------
(* The handler.                                                            *)

\* data() (lines 575-591): what the returned object shows when it is returned.
Data == [metricScoresByFrameId |-> metricScoresByFrameId, allMarkerEvents |-> allMarkerEvents]

\* Mutant: Renderer is not declared.
deps_MetaOnly == <<"Meta">>

\* deps (lines 593-595)
deps == <<"Meta", "Renderer">>

\* What data() of Meta and of Renderer hold before their finalize has run.
Unfinalized ==
  [finalized |-> {},
   meta |-> [mainFrameId |-> NoId, navigationsByNavigationId |-> <<>>,
             navigationsByFrameId |-> <<>>, rendererProcessesByFrame |-> <<>>],
   renderer |-> [processes |-> <<>>]]

\* Meta and Renderer have finalized, which is what the handler relies on.
Finalized ==
  [finalized |-> {"Meta", "Renderer"}, meta |-> MetaData, renderer |-> RendererData]

\* No finalize was called since the last reset.
NoCall ==
  [called |-> FALSE, repeated |-> FALSE,
   data |-> [metricScoresByFrameId |-> <<>>, allMarkerEvents |-> <<>>],
   selectedLCPCandidateEvents |-> {}]

\* The object data() returns (lines 584, 590).  `new Map(metricScoresByFrameId)`
\* copies the frame map only: its values are the handler's own navigation
\* maps.  The object is held as the frame keys of the copy, in order, the
\* copy of the marker array, and whether the navigation maps are still the
\* ones the handler holds (`shared`); once they are not, `own` holds them.
NoSnapshot ==
  [taken |-> FALSE, shared |-> FALSE, frames |-> <<>>, own |-> <<>>,
   allMarkerEvents |-> <<>>, edits |-> 0]

\* What the object shows: for every frame key of the copy the navigation map
\* it refers to, and the copy of the markers.
Shown(snap, table) ==
  [metricScoresByFrameId |->
     IF snap.shared
       THEN [i \in DOMAIN snap.frames |->
               [key |-> snap.frames[i], val |-> MapGet(table, snap.frames[i])]]
       ELSE snap.own,
   allMarkerEvents |-> snap.allMarkerEvents]

\* metricScoresByFrameId.clear() (line 42) empties the handler's frame map;
\* the navigation maps the object refers to are the handler's no more.
Detached(snap, table) ==
  IF snap.taken /\ snap.shared
    THEN [snap EXCEPT !.shared = FALSE, !.own = Shown(snap, table).metricScoresByFrameId]
    ELSE snap

\* What getFirstFCPTimestampFromModelData returns: null or a timestamp.
NullTimestamp == [null |-> TRUE, ts |-> 0]

Timestamp(ts) == [null |-> FALSE, ts |-> ts]

\* getFirstFCPTimestampFromModelData was not called.
NoTimeline == [called |-> FALSE, mainFrameId |-> NoId, metricScoresByFrameId |-> <<>>,
               result |-> NullTimestamp]

\* runAfterResourcesAreFinished was not called.
NothingSeen == [atCall |-> {}, added |-> <<>>, callbackAt |-> 0]

\* The test runner before runAfterResourcesAreFinished is called, with an
\* empty resource tree.
TestRunnerIdle ==
  /\ resources = {}
  /\ resourceURLs = <<>>
  /\ resourceURLsMap = {}
  /\ listening = FALSE
  /\ callbackRuns = 0
  /\ runner = "idle"
  /\ seen = NothingSeen

Init ==
  /\ trace \in DOMAIN Traces
  /\ fed = <<>>
  /\ pageLoadEventsArray = <<>>
  /\ metricScoresByFrameId = <<>>
  /\ allMarkerEvents = <<>>
  /\ selectedLCPCandidateEvents = {}
  /\ pc = "idle"
  /\ cursor = 0
  /\ outcome = "none"
  /\ finalizeCalls = 0
  /\ fedAtFinalize = 0
  /\ probe = ProbeOf(0)
  /\ atFinalize = NoCall
  /\ resetAfterFailure = FALSE
  /\ snapshot = NoSnapshot
  /\ upstream = Finalized
  /\ timeline = NoTimeline
  /\ TestRunnerIdle

\* Mutant: the published markers outlive the reset.
Reset_KeepsMarkers ==
  /\ pc = "idle"
  /\ metricScoresByFrameId' = <<>>
  /\ pageLoadEventsArray' = <<>>
  /\ selectedLCPCandidateEvents' = {}
  /\ fed' = <<>>
  /\ outcome' = "none"
  /\ finalizeCalls' = 0
  /\ fedAtFinalize' = 0
  /\ atFinalize' = NoCall
  /\ resetAfterFailure' = (outcome = "failed" /\ metricScoresByFrameId # <<>>)
  /\ snapshot' = Detached(snapshot, metricScoresByFrameId)
  /\ UNCHANGED <<trace, pc, cursor, probe, upstream, besideHandler, allMarkerEvents>>

\* Mutant: the metric table outlives the reset.
Reset_KeepsTable ==
  /\ pc = "idle"
  /\ allMarkerEvents' = <<>>
  /\ pageLoadEventsArray' = <<>>
  /\ selectedLCPCandidateEvents' = {}
  /\ fed' = <<>>
  /\ outcome' = "none"
  /\ finalizeCalls' = 0
  /\ fedAtFinalize' = 0
  /\ atFinalize' = NoCall
  /\ resetAfterFailure' = (outcome = "failed" /\ metricScoresByFrameId # <<>>)
  /\ snapshot' = Detached(snapshot, metricScoresByFrameId)
  /\ UNCHANGED <<trace, pc, cursor, probe, upstream, besideHandler, metricScoresByFrameId>>

\* reset (lines 41-46)
Reset ==
  /\ pc = "idle"
  /\ metricScoresByFrameId' = <<>>
  /\ pageLoadEventsArray' = <<>>
  /\ allMarkerEvents' = <<>>
  /\ selectedLCPCandidateEvents' = {}
  /\ fed' = <<>>
  /\ outcome' = "none"
  /\ finalizeCalls' = 0
  /\ fedAtFinalize' = 0
  /\ atFinalize' = NoCall
  /\ resetAfterFailure' = (outcome = "failed" /\ metricScoresByFrameId # <<>>)
  /\ snapshot' = Detached(snapshot, metricScoresByFrameId)
  /\ UNCHANGED <<trace, pc, cursor, probe, upstream, besideHandler>>

\* Mutant: the event is put in front of the buffer.
HandleEvent_Unshift(event) ==
  /\ pc = "idle"
  /\ Len(fed) < MaxEvents
  /\ fed' = Append(fed, event)
  /\ pageLoadEventsArray' = IF EventIsPageLoadEvent(event)
                              THEN <<event>> \o pageLoadEventsArray
                              ELSE pageLoadEventsArray
  /\ UNCHANGED <<trace, metricScoresByFrameId, allMarkerEvents, selectedLCPCandidateEvents,
                 pc, cursor, outcome, finalizeCalls, fedAtFinalize, probe, atFinalize, resetAfterFailure, snapshot, upstream, besideHandler>>

\* handleEvent (lines 89-94)
HandleEvent(event) ==
  /\ pc = "idle"
  /\ Len(fed) < MaxEvents
  /\ fed' = Append(fed, event)
  /\ pageLoadEventsArray' = IF EventIsPageLoadEvent(event)
                              THEN Append(pageLoadEventsArray, event)
                              ELSE pageLoadEventsArray
  /\ UNCHANGED <<trace, metricScoresByFrameId, allMarkerEvents, selectedLCPCandidateEvents,
                 pc, cursor, outcome, finalizeCalls, fedAtFinalize, probe, atFinalize, resetAfterFailure, snapshot, upstream, besideHandler>>

\* finalize, line 549: the buffer is sorted in place.
FinalizeBegin ==
  /\ pc = "idle"
  /\ finalizeCalls < MaxFinalize
  /\ pageLoadEventsArray' = SortByTs(pageLoadEventsArray)
  /\ pc' = "scoring"
  /\ cursor' = 1
  /\ outcome' = "pending"
  /\ finalizeCalls' = finalizeCalls + 1
  /\ fedAtFinalize' = Len(fed)
  /\ atFinalize' = [called |-> TRUE,
                    repeated |-> outcome = "ok" /\ fedAtFinalize = Len(fed),
                    data |-> Data,
                    selectedLCPCandidateEvents |-> selectedLCPCandidateEvents]
  /\ UNCHANGED <<trace, fed, metricScoresByFrameId, allMarkerEvents,
                 selectedLCPCandidateEvents, probe, resetAfterFailure, snapshot, upstream, besideHandler>>

\* finalize, lines 551-557: one iteration of the loop; a throw rejects the
\* promise and leaves what was stored so far.
FinalizeScore ==
  /\ pc = "scoring"
  /\ cursor <= Len(pageLoadEventsArray)
  /\ LET r == ScorePageLoadEvent(upstream.meta, metricScoresByFrameId,
                                 selectedLCPCandidateEvents, pageLoadEventsArray[cursor])
     IN  /\ metricScoresByFrameId' = r.table
         /\ selectedLCPCandidateEvents' = r.lcpSet
         /\ pc' = IF r.threw THEN "idle" ELSE "scoring"
         /\ cursor' = IF r.threw THEN 0 ELSE cursor + 1
         /\ outcome' = IF r.threw THEN "failed" ELSE outcome
  /\ UNCHANGED <<trace, fed, pageLoadEventsArray, allMarkerEvents, finalizeCalls,
                 fedAtFinalize, probe, atFinalize, resetAfterFailure, snapshot, upstream, besideHandler>>

\* finalize, line 558
FinalizeEstimate ==
  /\ pc = "scoring"
  /\ cursor > Len(pageLoadEventsArray)
  /\ LET r == EstimateTotalBlockingTimes(upstream.renderer.processes, metricScoresByFrameId)
     IN  /\ metricScoresByFrameId' = r.table
         /\ pc' = IF r.threw THEN "idle" ELSE "markers"
         /\ outcome' = IF r.threw THEN "failed" ELSE outcome
  /\ cursor' = 0
  /\ UNCHANGED <<trace, fed, pageLoadEventsArray, allMarkerEvents,
                 selectedLCPCandidateEvents, finalizeCalls, fedAtFinalize, probe, atFinalize, resetAfterFailure, snapshot, upstream, besideHandler>>

\* finalize, lines 559-567
FinalizeMarkers ==
  /\ pc = "markers"
  /\ LET r == MarkerEvents(upstream.meta, metricScoresByFrameId, pageLoadEventsArray)
     IN  /\ allMarkerEvents' = IF r.threw THEN allMarkerEvents ELSE r.markers
         /\ outcome' = IF r.threw THEN "failed" ELSE "ok"
  /\ pc' = "idle"
  /\ UNCHANGED <<trace, fed, pageLoadEventsArray, metricScoresByFrameId,
                 selectedLCPCandidateEvents, cursor, finalizeCalls, fedAtFinalize, probe, atFinalize, resetAfterFailure, snapshot, upstream, besideHandler>>

Next ==
  \/ Reset
  \/ \E event \in Traces[trace] \ {fed[i] : i \in DOMAIN fed} : HandleEvent(event)
  \/ FinalizeBegin
  \/ FinalizeScore
  \/ FinalizeEstimate
  \/ FinalizeMarkers

Spec == Init /\ [][Next]_vars

----------------------------------------------------------------------------
(* The scorers alone: every duration of Durations is scored, in any order, *)
(* beside a handler that stays as reset left it.                           *)

ScoreDuration(d) ==
  /\ probe' = ProbeOf(d)
  /\ UNCHANGED <<trace, fed, pageLoadEventsArray, metricScoresByFrameId, allMarkerEvents,
                 selectedLCPCandidateEvents, pc, cursor, outcome, finalizeCalls,
                 fedAtFinalize, atFinalize, resetAfterFailure, snapshot, upstream, besideHandler>>

ScorerInit ==
  /\ trace = "tbt"
  /\ fed = <<>>
  /\ pageLoadEventsArray = <<>>
  /\ metricScoresByFrameId = <<>>
  /\ allMarkerEvents = <<>>
  /\ selectedLCPCandidateEvents = {}
  /\ pc = "idle"
  /\ cursor = 0
  /\ outcome = "none"
  /\ finalizeCalls = 0
  /\ fedAtFinalize = 0
  /\ probe \in {ProbeOf(d) : d \in Durations}
  /\ atFinalize = NoCall
  /\ resetAfterFailure = FALSE
  /\ snapshot = NoSnapshot
  /\ upstream = Finalized
  /\ timeline = NoTimeline
  /\ TestRunnerIdle

ScorerNext == \E d \in Durations : ScoreDuration(d)

ScorerSpec == ScorerInit /\ [][ScorerNext]_vars

----------------------------------------------------------------------------
(* Vocabulary of the properties.                                           *)

\* The kinds the specification calls marker events and page-load events.
MarkerKinds ==
  {"MarkDOMContent", "MarkLoad", "firstPaint", "firstContentfulPaint",
   "largestContentfulPaint::Candidate"}

PageLoadKinds == MarkerKinds \cup {"InteractiveTime"}

AllEvents == UNION {Traces[t] : t \in DOMAIN Traces}

\* A step that is a call of handleEvent, and the event it was called with.
HandleEventStep == Len(fed') = Len(fed) + 1

HandledEvent == fed'[Len(fed')]

\* Every MetricScore of the table.
ScoresOf(table) ==
  UNION {UNION {{table[i].val[j].val[k].val : k \in DOMAIN table[i].val[j].val} :
                j \in DOMAIN table[i].val} :
         i \in DOMAIN table}

\* The elements of a sequence.
Range(seq) == {seq[i] : i \in DOMAIN seq}

\* A finalize has succeeded and nothing was fed since it began.
FinalizeSucceeded == pc = "idle" /\ outcome = "ok" /\ fedAtFinalize = Len(fed)

\* The frame and navigation ids that can key the table.
FrameIds == {e.frame : e \in AllEvents}

NavigationIds == DOMAIN MetaData.navigationsByNavigationId

Pairs == FrameIds \X NavigationIds

\* The event is scored for the pair: it resolves to that navigation, in that
\* frame, and lies in the activity window of its process.
ScoredFor(e, pair) ==
  LET nav == GetNavigationForPageLoadEvent(MetaData, e)
  IN  /\ ~nav.threw
      /\ nav.found
      /\ e.frame = pair[1]
      /\ nav.navigation.navigationId = pair[2]
      /\ EventBelongsToProcess(MetaData, e.frame, e)

\* The positions of the buffer that hold an event of the kind scored for the pair.
ScoredAt(buffer, kind, pair) ==
  {i \in DOMAIN buffer : buffer[i].name = kind /\ ScoredFor(buffer[i], pair)}

HasScore(table, pair, metricName) == MapHas(MetricsOf(table, pair[1], pair[2]), metricName)

ScoreAt(table, pair, metricName) == MapGet(MetricsOf(table, pair[1], pair[2]), metricName)

\* How many entries of the pair's metric map carry the metric name.
EntriesOf(table, pair, metricName) ==
  Cardinality({k \in DOMAIN MetricsOf(table, pair[1], pair[2]) :
                 MetricsOf(table, pair[1], pair[2])[k].key = metricName})

Max(a, b) == IF a >= b THEN a ELSE b

----------------------------------------------------------------------------
(* C1: handleEvent(e) never raises and changes neither the metric table,   *)
(* the marker sequence nor the selected LCP candidates; the buffer is      *)
(* unchanged when e is no page-load event and gets e appended at its end   *)
(* otherwise; so what data() returns is unchanged, and as long as finalize *)
(* has not run since the last reset the buffer is the subsequence of the   *)
(* page-load events fed, in arrival order, duplicates kept.                *)
C1_HandleEventOnlyAppends ==
  /\ [][HandleEventStep =>
          /\ metricScoresByFrameId' = metricScoresByFrameId
          /\ allMarkerEvents' = allMarkerEvents
          /\ selectedLCPCandidateEvents' = selectedLCPCandidateEvents
          /\ Data' = Data
          /\ outcome' = outcome
          /\ pageLoadEventsArray' =
               IF HandledEvent.name \in PageLoadKinds
                 THEN pageLoadEventsArray \o <<HandledEvent>>
                 ELSE pageLoadEventsArray]_vars
  /\ [](finalizeCalls = 0 =>
          pageLoadEventsArray = SelectSeq(fed, LAMBDA e : e.name \in PageLoadKinds))

\* handleEvent was called after a finalize that stored scores and markers:
\* once with an event it ignores, once with one it appended behind a later one.
C1_Witness ==
  /\ outcome = "ok"
  /\ metricScoresByFrameId # <<>>
  /\ allMarkerEvents # <<>>
  /\ \E i \in DOMAIN fed : fed[i].name \notin PageLoadKinds
  /\ pageLoadEventsArray # SortByTs(pageLoadEventsArray)

(* C2: the marker events are exactly the events of the five marker kinds   *)
(* and the page-load events exactly those plus InteractiveTime; a          *)
(* LayoutShift event or an event of an unknown kind is never buffered, is  *)
(* the source of no MetricScore, is in no marker sequence, and feeding it  *)
(* changes nothing of the handler (so it cannot make finalize fail).       *)
C2_Classifier ==
  /\ [](/\ \A e \in AllEvents :
             /\ IsTraceEventMarkerEvent(e) <=> e.name \in MarkerKinds
             /\ EventIsPageLoadEvent(e) <=> e.name \in PageLoadKinds
        /\ \A e \in Range(pageLoadEventsArray) : e.name \in PageLoadKinds
        /\ \A score \in ScoresOf(metricScoresByFrameId) :
             score.event = NoEvent \/ score.event.name \in PageLoadKinds
        /\ \A e \in Range(allMarkerEvents) : e.name \in MarkerKinds)
  /\ [][HandleEventStep /\ HandledEvent.name \notin PageLoadKinds =>
          UNCHANGED <<handlerVars, outcome, pc>>]_vars

\* A LayoutShift event and an event of an unknown kind were fed, and
\* finalize published markers and scores.
C2_Witness ==
  /\ \E i \in DOMAIN fed : fed[i].name = LayoutShift
  /\ \E i \in DOMAIN fed : fed[i].name \notin PageLoadKinds \cup {LayoutShift}
  /\ outcome = "ok"
  /\ metricScoresByFrameId # <<>>
  /\ allMarkerEvents # <<>>

\* The classification the specification's table gives a duration.
Banded(d, good, medium) ==
  CASE d <= good -> "good"
    [] good < d /\ d <= medium -> "ok"
    [] d > medium -> "bad"

(* C3: each scorer returns GOOD iff d <= g, OK iff g < d <= m and BAD iff  *)
(* d > m, with (g, m) = (1,800,000, 3,000,000) for FCP, (3,800,000,        *)
(* 7,300,000) for TTI, (2,500,000, 4,000,000) for LCP and (200,000,        *)
(* 600,000) for TBT; the result is never UNCLASSIFIED.                     *)
C3_ScorerBands ==
  /\ probe.fcp = Banded(probe.d, 1800000, 3000000)
  /\ probe.tti = Banded(probe.d, 3800000, 7300000)
  /\ probe.lcp = Banded(probe.d, 2500000, 4000000)
  /\ probe.tbt = Banded(probe.d, 200000, 600000)
  /\ UNCLASSIFIED \notin {probe.fcp, probe.tti, probe.lcp, probe.tbt}

\* A duration on a bound was scored: the good bound of FCP, which is past
\* the medium bound of TBT.
C3_Witness ==
  /\ probe.d = 1800000
  /\ probe.fcp = GOOD
  /\ probe.tbt = BAD

(* C4: after finalize the LCP score of every (frame, navigation) pair is   *)
(* the score of a candidate with the greatest candidateIndex among the     *)
(* candidates scored for the pair, whatever their arrival order and their  *)
(* timestamps; while finalize runs, a stored LCP candidate is replaced     *)
(* only by a candidate with a strictly greater candidateIndex.             *)
C4_LCPGreatestIndex ==
  /\ [](FinalizeSucceeded =>
          \A pair \in Pairs :
            LET at == ScoredAt(pageLoadEventsArray, LargestContentfulPaintCandidate, pair)
            IN  IF at = {}
                  THEN ~HasScore(metricScoresByFrameId, pair, LCP)
                  ELSE /\ HasScore(metricScoresByFrameId, pair, LCP)
                       /\ \E i \in at :
                            ScoreAt(metricScoresByFrameId, pair, LCP).event =
                              pageLoadEventsArray[i]
                       /\ \A i \in at :
                            pageLoadEventsArray[i].candidateIndex <=
                              ScoreAt(metricScoresByFrameId, pair, LCP).event.candidateIndex)
  /\ [][\A pair \in Pairs :
          /\ pc = "scoring"
          /\ HasScore(metricScoresByFrameId, pair, LCP)
          /\ HasScore(metricScoresByFrameId', pair, LCP)
          /\ ScoreAt(metricScoresByFrameId', pair, LCP) #
               ScoreAt(metricScoresByFrameId, pair, LCP)
          => ScoreAt(metricScoresByFrameId', pair, LCP).event.candidateIndex >
               ScoreAt(metricScoresByFrameId, pair, LCP).event.candidateIndex]_vars

\* Three candidates of one navigation were scored: the first was replaced by
\* the second, of a greater index, and the third, later in time and of a
\* lower index, was discarded.
C4_Witness ==
  /\ FinalizeSucceeded
  /\ \E pair \in Pairs :
       LET at == ScoredAt(pageLoadEventsArray, LargestContentfulPaintCandidate, pair)
       IN  \E i, j, k \in at :
             /\ i < j /\ j < k
             /\ pageLoadEventsArray[i].candidateIndex < pageLoadEventsArray[j].candidateIndex
             /\ pageLoadEventsArray[k].candidateIndex < pageLoadEventsArray[j].candidateIndex
             /\ pageLoadEventsArray[j].ts < pageLoadEventsArray[k].ts
             /\ ScoreAt(metricScoresByFrameId, pair, LCP).event = pageLoadEventsArray[j]

(* C5: in every state, each step of finalize included, the selected LCP    *)
(* candidates are exactly the source events of the LCP scores stored in    *)
(* the metric table, one per (frame, navigation) pair that has an LCP      *)
(* score.                                                                  *)
C5_SelectedAreStored ==
  LET withLCP == {pair \in Pairs : HasScore(metricScoresByFrameId, pair, LCP)}
  IN  /\ selectedLCPCandidateEvents =
           {ScoreAt(metricScoresByFrameId, pair, LCP).event : pair \in withLCP}
      /\ Cardinality(selectedLCPCandidateEvents) = Cardinality(withLCP)
      /\ \A score \in ScoresOf(metricScoresByFrameId) :
           score.metricName = LCP => score.event \in selectedLCPCandidateEvents

\* In the middle of finalize's loop a candidate has been superseded: it was
\* handled already and is not selected, while another one is.
C5_Witness ==
  /\ pc = "scoring"
  /\ cursor <= Len(pageLoadEventsArray)
  /\ selectedLCPCandidateEvents # {}
  /\ \E i \in 1..(cursor - 1) :
       /\ pageLoadEventsArray[i].name = LargestContentfulPaintCandidate
       /\ pageLoadEventsArray[i] \notin selectedLCPCandidateEvents
       /\ \E e \in selectedLCPCandidateEvents :
            /\ e.frame = pageLoadEventsArray[i].frame
            /\ e.candidateIndex > pageLoadEventsArray[i].candidateIndex

\* An InteractiveTime event was scored for the pair.
Reported(pair) == ScoredAt(pageLoadEventsArray, InteractiveTime, pair) # {}

\* Renderer has a record of the process.
RendererKnows(pid) == pid \in DOMAIN RendererData.processes

(* C6, as claimed: after finalize every pair that has an FCP score has     *)
(* exactly one TBT score, the authoritative one when an InteractiveTime    *)
(* event was scored for the pair and an estimate otherwise; a pair for     *)
(* which neither an FCP nor an InteractiveTime event was scored has none.  *)
C6_Claimed ==
  FinalizeSucceeded =>
    \A pair \in Pairs :
      /\ HasScore(metricScoresByFrameId, pair, FCP) =>
           /\ EntriesOf(metricScoresByFrameId, pair, TBT) = 1
           /\ ScoreAt(metricScoresByFrameId, pair, TBT).estimated <=> ~Reported(pair)
      /\ (ScoredAt(pageLoadEventsArray, FirstContentfulPaint, pair) = {} /\ ~Reported(pair))
           => ~HasScore(metricScoresByFrameId, pair, TBT)

(* C6, amended: after finalize a pair for which an InteractiveTime event   *)
(* was scored has exactly one TBT score, the authoritative one; a pair     *)
(* with an FCP score and no such event has exactly one TBT score, an       *)
(* estimate, when Renderer has a record of the process of the FCP score's  *)
(* source event, and has no TBT score when Renderer has a record of the    *)
(* process of none of the pair's scored FCP events; a pair for which       *)
(* neither kind of event was scored has no TBT score.                      *)
C6_TBTReportedOrEstimated ==
  FinalizeSucceeded =>
    \A pair \in Pairs :
      LET fcpAt == ScoredAt(pageLoadEventsArray, FirstContentfulPaint, pair)
      IN  /\ Reported(pair) =>
               /\ EntriesOf(metricScoresByFrameId, pair, TBT) = 1
               /\ ~ScoreAt(metricScoresByFrameId, pair, TBT).estimated
          /\ (/\ HasScore(metricScoresByFrameId, pair, FCP)
              /\ ~Reported(pair)
              /\ RendererKnows(ScoreAt(metricScoresByFrameId, pair, FCP).event.pid)) =>
               /\ EntriesOf(metricScoresByFrameId, pair, TBT) = 1
               /\ ScoreAt(metricScoresByFrameId, pair, TBT).estimated
          /\ (/\ ~Reported(pair)
              /\ \A i \in fcpAt : ~RendererKnows(pageLoadEventsArray[i].pid)) =>
               ~HasScore(metricScoresByFrameId, pair, TBT)

\* One pair has an FCP score and an estimate, another an FCP score of a
\* process unknown to Renderer and no TBT score, a third a reported TBT.
C6_Witness ==
  /\ FinalizeSucceeded
  /\ \E pair \in Pairs :
       /\ HasScore(metricScoresByFrameId, pair, FCP)
       /\ HasScore(metricScoresByFrameId, pair, TBT)
       /\ ScoreAt(metricScoresByFrameId, pair, TBT).estimated
  /\ \E pair \in Pairs :
       /\ HasScore(metricScoresByFrameId, pair, FCP)
       /\ ~HasScore(metricScoresByFrameId, pair, TBT)
  /\ \E pair \in Pairs :
       /\ Reported(pair)
       /\ ~ScoreAt(metricScoresByFrameId, pair, TBT).estimated

(* C7: when an InteractiveTime event was scored for a pair, after finalize *)
(* the TBT score of the pair has the value total_blocking_time_ms * 1000   *)
(* microseconds of the last such event of the sorted buffer, that event as *)
(* its source and estimated unset.                                         *)
C7_ReportedTBTWins ==
  FinalizeSucceeded =>
    \A pair \in Pairs :
      LET at == ScoredAt(pageLoadEventsArray, InteractiveTime, pair)
      IN  at # {} =>
            LET latest == pageLoadEventsArray[CHOOSE i \in at : \A j \in at : j <= i]
                tbt == ScoreAt(metricScoresByFrameId, pair, TBT)
            IN  /\ HasScore(metricScoresByFrameId, pair, TBT)
                /\ tbt.event = latest
                /\ tbt.score = FormatMilliseconds(latest.total_blocking_time_ms * 1000)
                /\ tbt.classification =
                     Banded(latest.total_blocking_time_ms * 1000, 200000, 600000)
                /\ ~tbt.estimated

\* Two InteractiveTime events and an FCP event of a process with long tasks
\* were scored for one navigation; the TBT score is the later event's.
C7_Witness ==
  /\ FinalizeSucceeded
  /\ \E pair \in Pairs :
       LET at == ScoredAt(pageLoadEventsArray, InteractiveTime, pair)
       IN  /\ Cardinality(at) = 2
           /\ HasScore(metricScoresByFrameId, pair, FCP)
           /\ ScoreAt(metricScoresByFrameId, pair, FCP).event.pid = "p1"
           /\ ScoreAt(metricScoresByFrameId, pair, TBT).event.total_blocking_time_ms = 700
           /\ ScoreAt(metricScoresByFrameId, pair, TBT).classification = BAD

\* The thread of the process that is named CrRendererMain.
MainThreadOf(pid) ==
  LET threads == RendererData.processes[pid].threads
  IN  threads[CHOOSE i \in DOMAIN threads : threads[i].name = "CrRendererMain"]

\* max(0, c - 50,000) with c = dur - max(0, fcpTs - ts), for a non-instant
\* RunTask that ends at or after FCP; 0 for every other task.
BlockingPortion(task, fcpTs) ==
  IF task.name = "RunTask" /\ task.ph \notin {"I", "i"} /\ task.ts + task.dur >= fcpTs
    THEN Max(0, (task.dur - Max(0, fcpTs - task.ts)) - 50000)
    ELSE 0

\* The sum of the blocking portions of the tasks of the given root nodes.
RECURSIVE BlockingSum(_, _, _)
BlockingSum(thread, rootIds, fcpTs) ==
  IF rootIds = {} THEN 0
  ELSE LET r == CHOOSE r \in rootIds : TRUE
       IN  BlockingPortion(thread.events[thread.tree.nodes[r].eventIndex + 1], fcpTs)
             + BlockingSum(thread, rootIds \ {r}, fcpTs)

(* C8: an estimate that finalize stores equals the sum, over the root      *)
(* nodes of the main-thread tree of the FCP event's process whose event is *)
(* a non-instant RunTask with ts + dur >= fcpTs, of max(0, c - 50,000)     *)
(* where c = dur - max(0, fcpTs - ts); it is never negative.               *)
C8_EstimateIsBlockingSum ==
  [][pc = "scoring" /\ pc' = "markers" =>
       \A pair \in Pairs :
         (~HasScore(metricScoresByFrameId, pair, TBT)
            /\ HasScore(metricScoresByFrameId', pair, TBT)) =>
           LET fcp == ScoreAt(metricScoresByFrameId, pair, FCP).event
               main == MainThreadOf(fcp.pid)
               estimate == ScoreAt(metricScoresByFrameId', pair, TBT)
           IN  /\ estimate.estimated
               /\ estimate.event = NoEvent
               /\ estimate.score =
                    FormatMilliseconds(BlockingSum(main, Range(main.tree.roots), fcp.ts))
               /\ estimate.score.hundredths >= 0]_vars

\* Two estimates were stored over the tasks of p1.  One is 550 ms, for an
\* FCP at 1,000,000: a task that ends before it, one that spans it, one with
\* a child, one of another name, an instant one, one of exactly 50 ms, and
\* a later one.  The other is 250 ms, for an FCP at 6,000,000 that only the
\* last task outlasts.
C8_Witness ==
  /\ pc = "markers"
  /\ \E pair \in Pairs :
       /\ HasScore(metricScoresByFrameId, pair, TBT)
       /\ ScoreAt(metricScoresByFrameId, pair, TBT).estimated
       /\ ScoreAt(metricScoresByFrameId, pair, FCP).event.ts = 1000000
       /\ ScoreAt(metricScoresByFrameId, pair, FCP).event.pid = "p1"
       /\ ScoreAt(metricScoresByFrameId, pair, TBT).score = [unit |-> "ms", hundredths |-> 55000]
  /\ \E pair \in Pairs :
       /\ HasScore(metricScoresByFrameId, pair, TBT)
       /\ ScoreAt(metricScoresByFrameId, pair, TBT).estimated
       /\ ScoreAt(metricScoresByFrameId, pair, FCP).event.pid = "p1"
       /\ ScoreAt(metricScoresByFrameId, pair, TBT).score = [unit |-> "ms", hundredths |-> 25000]

(* C9: after a finalize that succeeds, every event of the marker sequence  *)
(* has the main frame id reported by Meta, and the sequence is             *)
(* non-decreasing by timestamp.                                            *)
C9_MarkersMainFrameSorted ==
  FinalizeSucceeded =>
    /\ \A i \in DOMAIN allMarkerEvents : allMarkerEvents[i].frame = MetaData.mainFrameId
    /\ \A i, j \in DOMAIN allMarkerEvents :
         i < j => allMarkerEvents[i].ts <= allMarkerEvents[j].ts

\* Events of two frames were fed, the later ones first, and two of them
\* were published.
C9_Witness ==
  /\ FinalizeSucceeded
  /\ Len(allMarkerEvents) >= 2
  /\ allMarkerEvents[1].ts < allMarkerEvents[2].ts
  /\ \E i, j \in DOMAIN fed :
       i < j /\ fed[i] = allMarkerEvents[2] /\ fed[j] = allMarkerEvents[1]
  /\ \E i \in DOMAIN fed :
       fed[i].name \in MarkerKinds /\ fed[i].frame # MetaData.mainFrameId

\* The source events of the LCP scores of the table.
LCPSources == {score.event : score \in {x \in ScoresOf(metricScoresByFrameId) : x.metricName = LCP}}

\* How often the event occurs in the sequence.
Occurrences(seq, e) == Cardinality({i \in DOMAIN seq : seq[i] = e})

(* C10, as claimed: after a finalize that succeeds the marker sequence     *)
(* holds exactly the source events of the stored LCP scores and every      *)
(* buffered event that is not an LCP candidate, both restricted to the     *)
(* main frame.                                                             *)
C10_Claimed ==
  FinalizeSucceeded =>
    Range(allMarkerEvents) =
      {e \in LCPSources \cup
             {x \in Range(pageLoadEventsArray) : x.name # LargestContentfulPaintCandidate} :
         e.frame = MetaData.mainFrameId}

(* C10, amended: after a finalize that succeeds the marker sequence holds  *)
(* exactly the source events of the stored LCP scores, once each, and      *)
(* every buffered event that is neither an LCP candidate nor an            *)
(* InteractiveTime event, as often as it is buffered, both restricted to   *)
(* the main frame; such an event is present whether or not it produced a   *)
(* MetricScore.                                                            *)
C10_MarkerContents ==
  FinalizeSucceeded =>
    LET others == {x \in Range(pageLoadEventsArray) :
                     x.name \notin {LargestContentfulPaintCandidate, InteractiveTime}}
    IN  /\ Range(allMarkerEvents) =
             {e \in LCPSources \cup others : e.frame = MetaData.mainFrameId}
        /\ \A e \in Range(allMarkerEvents) :
             Occurrences(allMarkerEvents, e) =
               IF e.name = LargestContentfulPaintCandidate
                 THEN 1
                 ELSE Occurrences(pageLoadEventsArray, e)

\* The markers hold a selected LCP candidate and an event that produced no
\* MetricScore; the buffer holds an InteractiveTime event of the main frame
\* besides.
C10_Witness ==
  /\ FinalizeSucceeded
  /\ \E e \in Range(allMarkerEvents) : e \in LCPSources
  /\ \E e \in Range(allMarkerEvents) :
       \A score \in ScoresOf(metricScoresByFrameId) : score.event # e
  /\ \E e \in Range(pageLoadEventsArray) :
       e.name = InteractiveTime /\ e.frame = MetaData.mainFrameId

\* The loop of finalize over the buffer from position i on, from what the
\* positions before it left behind.
RECURSIVE ScoreFrom(_, _, _)
ScoreFrom(buffer, i, acc) ==
  IF acc.threw \/ i > Len(buffer) THEN acc
  ELSE ScoreFrom(buffer, i + 1,
                 ScorePageLoadEvent(MetaData, acc.table, acc.lcpSet, buffer[i]))

\* What one finalize of a freshly reset handler yields for the events fed:
\* whether it failed, and the table, the selected candidates and the markers.
FreshFinalize(events) ==
  LET buffer == SortByTs(SelectSeq(events, EventIsPageLoadEvent))
      scored == ScoreFrom(buffer, 1, Outcome(FALSE, <<>>, {}))
      estimated == EstimateTotalBlockingTimes(RendererData.processes, scored.table)
      markers == MarkerEvents(MetaData, estimated.table, buffer)
  IN  [threw |-> scored.threw \/ estimated.threw \/ markers.threw,
       metricScoresByFrameId |-> IF scored.threw THEN scored.table ELSE estimated.table,
       selectedLCPCandidateEvents |-> scored.lcpSet,
       allMarkerEvents |-> IF scored.threw \/ estimated.threw \/ markers.threw
                             THEN <<>> ELSE markers.markers]

\* The event names a navigation id that Meta does not hold, or no
\* navigation of its frame started at or before it.
NavigationDiscarded(e) ==
  \/ /\ e.name \in {"firstContentfulPaint", "firstPaint", "largestContentfulPaint::Candidate"}
     /\ e.navigationId # NoId
     /\ e.navigationId \notin DOMAIN MetaData.navigationsByNavigationId
  \/ /\ e.name \in {"MarkDOMContent", "MarkLoad", "InteractiveTime"}
     /\ e.frame # NoId
     /\ \A n \in {Nav1, Nav2, Nav3} : n.frame = e.frame => n.ts > e.ts

(* C11: an event whose navigation cannot be resolved (an FCP, FirstPaint   *)
(* or LCP-candidate event whose navigationId Meta does not hold; a         *)
(* DOMContentLoaded, Load or InteractiveTime event with no navigation      *)
(* active for its frame at its timestamp) produces no MetricScore and does *)
(* not make finalize fail: the step of the loop that meets it changes      *)
(* nothing and goes on, and the first finalize after a reset yields what   *)
(* it yields for the events fed without those events.                      *)
C11_DiscardedNavigationDropped ==
  [][/\ (/\ pc = "scoring"
         /\ cursor <= Len(pageLoadEventsArray)
         /\ NavigationDiscarded(pageLoadEventsArray[cursor])) =>
          /\ metricScoresByFrameId' = metricScoresByFrameId
          /\ selectedLCPCandidateEvents' = selectedLCPCandidateEvents
          /\ pc' = "scoring"
          /\ cursor' = cursor + 1
          /\ outcome' = "pending"
     /\ \A score \in ScoresOf(metricScoresByFrameId') :
          score.event # NoEvent => ~NavigationDiscarded(score.event)
     /\ (pc' = "idle" /\ outcome' \in {"ok", "failed"} /\ finalizeCalls' = 1
           /\ fedAtFinalize' = Len(fed')) =>
          LET kept == FreshFinalize(SelectSeq(fed', LAMBDA e : ~NavigationDiscarded(e)))
          IN  /\ kept.threw <=> outcome' = "failed"
              /\ kept.metricScoresByFrameId = metricScoresByFrameId'
              /\ kept.selectedLCPCandidateEvents = selectedLCPCandidateEvents'
              /\ outcome' = "ok" =>
                   Range(kept.allMarkerEvents) =
                     {e \in Range(allMarkerEvents') : ~NavigationDiscarded(e)}]_vars

\* A finalize succeeded over an event that names a navigation Meta does not
\* hold, an event that no navigation of its frame precedes, and an event
\* that was scored.
C11_Witness ==
  /\ FinalizeSucceeded
  /\ finalizeCalls = 1
  /\ \E e \in Range(pageLoadEventsArray) :
       e.name = FirstContentfulPaint /\ NavigationDiscarded(e)
  /\ \E e \in Range(pageLoadEventsArray) :
       e.name = MarkLoad /\ NavigationDiscarded(e)
  /\ \E score \in ScoresOf(metricScoresByFrameId) : score.metricName = FP

\* The event carries the id its kind is resolved by, and its navigation is
\* resolved.
NavigationResolved(e) ==
  /\ ~NavigationDiscarded(e)
  /\ \/ /\ e.name \in {"firstContentfulPaint", "firstPaint", "largestContentfulPaint::Candidate"}
        /\ e.navigationId # NoId
     \/ /\ e.name \in {"MarkDOMContent", "MarkLoad", "InteractiveTime"}
        /\ e.frame # NoId

\* The id of the navigation a resolved event belongs to.
ResolvedNavigationId(e) ==
  IF e.name \in {"firstContentfulPaint", "firstPaint", "largestContentfulPaint::Candidate"}
    THEN e.navigationId
    ELSE LET started == {n \in {Nav1, Nav2, Nav3} : n.frame = e.frame /\ n.ts <= e.ts}
         IN  (CHOOSE n \in started : \A m \in started : m.ts <= n.ts).navigationId

\* Meta records a window for the event's frame and process, and
\* window.min <= event.ts <= window.max.
InRecordedWindow(e) ==
  /\ e.frame \in DOMAIN MetaData.rendererProcessesByFrame
  /\ e.pid \in DOMAIN MetaData.rendererProcessesByFrame[e.frame]
  /\ MetaData.rendererProcessesByFrame[e.frame][e.pid].min <= e.ts
  /\ e.ts <= MetaData.rendererProcessesByFrame[e.frame][e.pid].max

\* The metric an event of the kind is scored as.
MetricOfKind ==
  [firstContentfulPaint |-> FCP, firstPaint |-> FP, MarkDOMContent |-> DCL,
   MarkLoad |-> L, InteractiveTime |-> TTI]

(* C12: an event with a resolved navigation produces a MetricScore only if *)
(* Meta records an activity window for its frame and process and           *)
(* window.min <= event.ts <= window.max; otherwise the step of the loop    *)
(* that meets it raises no error and changes neither the metric table nor  *)
(* the selected candidates.  An event at either end of its window is       *)
(* scored.                                                                 *)
C12_ScoredOnlyInsideWindow ==
  [][/\ (/\ pc = "scoring"
         /\ cursor <= Len(pageLoadEventsArray)
         /\ NavigationResolved(pageLoadEventsArray[cursor])) =>
          LET e == pageLoadEventsArray[cursor]
          IN  /\ ~InRecordedWindow(e) =>
                   /\ metricScoresByFrameId' = metricScoresByFrameId
                   /\ selectedLCPCandidateEvents' = selectedLCPCandidateEvents
                   /\ pc' = "scoring"
                   /\ outcome' = "pending"
              /\ (InRecordedWindow(e) /\ e.name \in DOMAIN MetricOfKind) =>
                   /\ pc' = "scoring"
                   /\ ScoreAt(metricScoresByFrameId', <<e.frame, ResolvedNavigationId(e)>>,
                              MetricOfKind[e.name]).event = e
     /\ \A score \in ScoresOf(metricScoresByFrameId') :
          score.event # NoEvent => InRecordedWindow(score.event)]_vars

\* An event at the start and one at the end of the window were scored; an
\* event one microsecond past the end was buffered and is not in the table.
C12_Witness ==
  /\ FinalizeSucceeded
  /\ \E score \in ScoresOf(metricScoresByFrameId) :
       score.event # NoEvent
         /\ score.event.ts = MetaData.rendererProcessesByFrame["f1"]["p1"].min
  /\ \E score \in ScoresOf(metricScoresByFrameId) :
       score.event # NoEvent
         /\ score.event.ts = MetaData.rendererProcessesByFrame["f1"]["p1"].max
  /\ \E e \in Range(pageLoadEventsArray) :
       /\ e.ts = MetaData.rendererProcessesByFrame["f1"]["p1"].max + 1
       /\ NavigationResolved(e)
       /\ \A score \in ScoresOf(metricScoresByFrameId) : score.event # e

(* C13: after reset(), whatever the state it was called in, the metric     *)
(* table, the buffer, the marker sequence and the selected candidates are  *)
(* empty, so that a second reset() changes nothing; and a finalize() that  *)
(* follows reset() with no event fed succeeds with an empty table and an   *)
(* empty marker sequence.                                                  *)
C13_ResetClears ==
  /\ (pc = "idle" /\ fed = <<>> /\ finalizeCalls = 0) =>
       /\ metricScoresByFrameId = <<>>
       /\ pageLoadEventsArray = <<>>
       /\ allMarkerEvents = <<>>
       /\ selectedLCPCandidateEvents = {}
       /\ outcome = "none"
  /\ (pc = "idle" /\ fed = <<>> /\ finalizeCalls > 0) =>
       /\ outcome = "ok"
       /\ Data = [metricScoresByFrameId |-> <<>>, allMarkerEvents |-> <<>>]
       /\ pageLoadEventsArray = <<>>
       /\ selectedLCPCandidateEvents = {}

\* reset() was called after a finalize that failed, and the finalize that
\* followed it with no event fed has succeeded.
C13_Witness ==
  /\ resetAfterFailure
  /\ fed = <<>>
  /\ pc = "idle"
  /\ finalizeCalls = 1
  /\ outcome = "ok"

\* The event lacks the id its kind is resolved by.
Malformed(e) ==
  \/ /\ e.name \in {"firstContentfulPaint", "firstPaint", "largestContentfulPaint::Candidate"}
     /\ e.navigationId = NoId
  \/ /\ e.name \in {"MarkDOMContent", "MarkLoad"}
     /\ e.frame = NoId

(* C14: finalize fails, and publishes no marker sequence, whenever the     *)
(* buffer holds an FCP, FirstPaint or LCP-candidate event without a        *)
(* navigationId or a DOMContentLoaded or Load event without a frame id:    *)
(* the loop never gets past such an event.                                 *)
C14_MalformedEventIsFatal ==
  (\E e \in Range(pageLoadEventsArray) : Malformed(e)) =>
    /\ pc # "markers"
    /\ pc = "scoring" => \A i \in 1..(cursor - 1) : ~Malformed(pageLoadEventsArray[i])
    /\ (pc = "idle" /\ atFinalize.called /\ fedAtFinalize = Len(fed)) =>
         /\ outcome = "failed"
         /\ allMarkerEvents = atFinalize.data.allMarkerEvents

\* A finalize failed over a buffer that holds an event without navigationId
\* of an unknown process, outside every window, and an event without frame id.
C14_Witness ==
  /\ pc = "idle"
  /\ outcome = "failed"
  /\ fedAtFinalize = Len(fed)
  /\ \E e \in Range(pageLoadEventsArray) :
       Malformed(e) /\ e.navigationId = NoId /\ e.frame # NoId /\ ~InRecordedWindow(e)
  /\ \E e \in Range(pageLoadEventsArray) : Malformed(e) /\ e.frame = NoId

\* Renderer holds a thread named CrRendererMain for the process.
HasMainThread(pid) ==
  /\ RendererKnows(pid)
  /\ \E i \in DOMAIN RendererData.processes[pid].threads :
       RendererData.processes[pid].threads[i].name = "CrRendererMain"

\* The thread of the process that estimateTotalBlockingTimes takes for the
\* main thread: the first one named CrRendererMain.
NamedMain(pid) ==
  LET threads == RendererData.processes[pid].threads
  IN  threads[CHOOSE i \in DOMAIN threads :
                /\ threads[i].name = "CrRendererMain"
                /\ \A j \in DOMAIN threads : threads[j].name = "CrRendererMain" => i <= j]

\* Renderer has a record of the process, and its main-thread data is
\* incomplete: no thread named CrRendererMain, no call tree, a root id
\* without node, or a root node whose event index has no event.
MainThreadDataMissing(pid) ==
  /\ RendererKnows(pid)
  /\ \/ ~HasMainThread(pid)
     \/ ~NamedMain(pid).tree.defined
     \/ \E rootId \in Range(NamedMain(pid).tree.roots) :
          \/ rootId \notin DOMAIN NamedMain(pid).tree.nodes
          \/ NamedMain(pid).tree.nodes[rootId].eventIndex + 1
               \notin DOMAIN NamedMain(pid).events

\* An LCP candidate whose candidateIndex field is absent.
WithoutIndex(e) == e.name = "largestContentfulPaint::Candidate" /\ e.candidateIndex = NoIndex

\* The last finalize has ended, and nothing was fed since it began.
FinalizeEnded == pc = "idle" /\ atFinalize.called /\ fedAtFinalize = Len(fed)

(* C15, as claimed: finalize fails for every buffered LCP candidate whose  *)
(* candidateIndex is missing, also when the candidate's navigation was     *)
(* discarded by Meta or its timestamp is outside its process's window.     *)
C15_Claimed ==
  (FinalizeEnded /\ \E e \in Range(pageLoadEventsArray) : WithoutIndex(e)) =>
    outcome = "failed"

(* C15, amended: finalize fails for every buffered LCP candidate whose     *)
(* candidateIndex is missing, whose navigation is resolved and whose       *)
(* timestamp lies in the recorded activity window of its process; a        *)
(* candidate without index whose navigation Meta discarded, or that lies   *)
(* outside its window, is dropped before its index is looked at and is     *)
(* not a cause of failure: a finalize that failed met an event without a   *)
(* required id, a resolved candidate in its window with no index (or index *)
(* 0), or an FCP event of a process whose main-thread data is incomplete.  *)
C15_MissingIndexIsFatalWhenReached ==
  /\ (\E e \in Range(pageLoadEventsArray) :
        WithoutIndex(e) /\ NavigationResolved(e) /\ InRecordedWindow(e)) =>
       /\ pc # "markers"
       /\ pc = "scoring" =>
            \A i \in 1..(cursor - 1) :
              LET e == pageLoadEventsArray[i]
              IN  ~(WithoutIndex(e) /\ NavigationResolved(e) /\ InRecordedWindow(e))
       /\ FinalizeEnded => outcome = "failed"
  /\ (FinalizeEnded /\ outcome = "failed") =>
       \E e \in Range(pageLoadEventsArray) :
         \/ Malformed(e)
         \/ /\ e.name = "largestContentfulPaint::Candidate"
            /\ e.candidateIndex \in {NoIndex, 0}
            /\ NavigationResolved(e)
            /\ InRecordedWindow(e)
         \/ /\ e.name = "firstContentfulPaint"
            /\ NavigationResolved(e)
            /\ InRecordedWindow(e)
            /\ MainThreadDataMissing(e.pid)

\* A finalize failed over a candidate without index in its window, after
\* it had passed an earlier candidate without index whose navigation Meta
\* does not hold; no other buffered event is a cause of failure.
C15_Witness ==
  /\ FinalizeEnded
  /\ outcome = "failed"
  /\ \E e, d \in Range(pageLoadEventsArray) :
       /\ WithoutIndex(e) /\ NavigationResolved(e) /\ InRecordedWindow(e)
       /\ WithoutIndex(d) /\ NavigationDiscarded(d) /\ d.ts < e.ts
  /\ \A e \in Range(pageLoadEventsArray) :
       /\ e.name = "largestContentfulPaint::Candidate" => e.candidateIndex = NoIndex
       /\ e.name = "firstContentfulPaint" => e.pid = "p1"

(* C16: when finalize aborts with a fatal error, the metric table, the     *)
(* selected candidates and the marker sequence are what they were when     *)
(* finalize was called.  The program does not keep to it: the scores that  *)
(* the loop stored before it met the fatal event stay in the table.        *)
C16_FailureLeavesNothing ==
  (FinalizeEnded /\ outcome = "failed") =>
    /\ Data = atFinalize.data
    /\ selectedLCPCandidateEvents = atFinalize.selectedLCPCandidateEvents

(* C17: after a finalize that failed, reset() followed by feeding a        *)
(* sequence S of events and a successful finalize() yields the metric      *)
(* table, the selected candidates and the marker sequence that feeding S   *)
(* to a handler that never failed yields: in both cases they are what one  *)
(* finalize computes from S and empty state.                               *)
C17_RetryAfterResetIsClean ==
  (FinalizeSucceeded /\ finalizeCalls = 1) =>
    LET fresh == FreshFinalize(fed)
    IN  /\ ~fresh.threw
        /\ Data = [metricScoresByFrameId |-> fresh.metricScoresByFrameId,
                   allMarkerEvents |-> fresh.allMarkerEvents]
        /\ selectedLCPCandidateEvents = fresh.selectedLCPCandidateEvents
        /\ pageLoadEventsArray = SortByTs(SelectSeq(fed, EventIsPageLoadEvent))

\* A finalize failed and left scores in the table; after reset() two events
\* were fed and finalize has succeeded with a score in the table.
C17_Witness ==
  /\ FinalizeSucceeded
  /\ finalizeCalls = 1
  /\ resetAfterFailure
  /\ Len(fed) >= 2
  /\ metricScoresByFrameId # <<>>

\* The event carries the ids its kind requires; its navigation, frame and
\* process window are in Meta; its process has a main thread in Renderer,
\* with its call tree, nodes and events.
WellFormedWithLineage(e) ==
  /\ ~Malformed(e)
  /\ e.name = "largestContentfulPaint::Candidate" => e.candidateIndex # NoIndex
  /\ NavigationResolved(e)
  /\ InRecordedWindow(e)
  /\ HasMainThread(e.pid)
  /\ ~MainThreadDataMissing(e.pid)

(* C18: for every sequence of well-formed events (navigationId, frame id   *)
(* and candidateIndex present) whose navigations, frames and process       *)
(* windows are in Meta and whose processes have a main thread in Renderer, *)
(* finalize() does not fail.  The program does not keep to it: a candidate *)
(* that carries candidateIndex 0 makes finalize fail.                      *)
C18_WellFormedNeverRaises ==
  (FinalizeEnded /\ \A e \in Range(pageLoadEventsArray) : WellFormedWithLineage(e)) =>
    outcome = "ok"

----------------------------------------------------------------------------
(* The caller of data() and the object it holds (lines 575-591).           *)

\* Everything but the metric table and the caller's object.
besideTableAndSnapshot ==
  <<trace, fed, pageLoadEventsArray, allMarkerEvents, selectedLCPCandidateEvents, pc,
    cursor, outcome, finalizeCalls, fedAtFinalize, probe, atFinalize, resetAfterFailure,
    upstream, besideHandler>>

\* data(): the caller gets a copy of the frame map, whose values are the
\* handler's navigation maps, and a copy of the marker array.
TakeData ==
  /\ pc = "idle"
  /\ ~snapshot.taken
  /\ snapshot' = [taken |-> TRUE, shared |-> TRUE,
                  frames |-> [i \in DOMAIN metricScoresByFrameId |->
                                metricScoresByFrameId[i].key],
                  own |-> <<>>,
                  allMarkerEvents |-> allMarkerEvents,
                  edits |-> 0]
  /\ UNCHANGED <<besideTableAndSnapshot, metricScoresByFrameId>>

\* The caller deletes a frame from the returned map: the map is its own.
CallerDeletesFrame(frameId) ==
  /\ pc = "idle"
  /\ snapshot.taken
  /\ snapshot.edits < MaxEdits
  /\ MapHas(Shown(snapshot, metricScoresByFrameId).metricScoresByFrameId, frameId)
  /\ snapshot' = [snapshot EXCEPT !.frames = SelectSeq(@, LAMBDA f : f # frameId),
                                  !.own = MapDelete(@, frameId),
                                  !.edits = @ + 1]
  /\ UNCHANGED <<besideTableAndSnapshot, metricScoresByFrameId>>

\* The caller puts an edited navigation map in the place of a frame's: while
\* the map is the handler's, the handler's table has the edit too.
CallerEditsFrame(frameId, edited) ==
  /\ snapshot' = [snapshot EXCEPT !.own = IF snapshot.shared THEN @
                                          ELSE MapSet(@, frameId, edited),
                                  !.edits = @ + 1]
  /\ metricScoresByFrameId' = IF snapshot.shared
                                THEN MapSet(metricScoresByFrameId, frameId, edited)
                                ELSE metricScoresByFrameId
  /\ UNCHANGED besideTableAndSnapshot

\* The caller deletes a navigation from a frame's navigation map.
CallerDeletesNavigation(frameId, navigationId) ==
  LET shown == Shown(snapshot, metricScoresByFrameId).metricScoresByFrameId
  IN  /\ pc = "idle"
      /\ snapshot.taken
      /\ snapshot.edits < MaxEdits
      /\ MapHas(shown, frameId)
      /\ MapHas(MapGet(shown, frameId), navigationId)
      /\ CallerEditsFrame(frameId, MapDelete(MapGet(shown, frameId), navigationId))

\* The caller deletes a metric from a navigation's metric map.
CallerDeletesMetric(frameId, navigationId, metricName) ==
  LET shown == Shown(snapshot, metricScoresByFrameId).metricScoresByFrameId
  IN  /\ pc = "idle"
      /\ snapshot.taken
      /\ snapshot.edits < MaxEdits
      /\ MapHas(shown, frameId)
      /\ MapHas(MapGet(shown, frameId), navigationId)
      /\ MapHas(MapGet(MapGet(shown, frameId), navigationId), metricName)
      /\ CallerEditsFrame(frameId,
                          MapSet(MapGet(shown, frameId), navigationId,
                                 MapDelete(MapGet(MapGet(shown, frameId), navigationId),
                                           metricName)))

\* The caller removes the first marker of the returned array: the array is
\* its own.
CallerShiftsMarker ==
  /\ pc = "idle"
  /\ snapshot.taken
  /\ snapshot.edits < MaxEdits
  /\ snapshot.allMarkerEvents # <<>>
  /\ snapshot' = [snapshot EXCEPT !.allMarkerEvents = Tail(@), !.edits = @ + 1]
  /\ UNCHANGED <<besideTableAndSnapshot, metricScoresByFrameId>>

\* The events that are fed while a caller holds an object: a DOMContentLoaded
\* event of the main frame, a Load event of another frame, an LCP candidate.
SnapshotEvents == {e \in MarkerSourceEvents : e.id \in {21, 22, 25}}

SnapshotInit == Init /\ trace = "markers"

SnapshotNext ==
  \/ Reset
  \/ \E event \in SnapshotEvents \ {fed[i] : i \in DOMAIN fed} : HandleEvent(event)
  \/ FinalizeBegin
  \/ FinalizeScore
  \/ FinalizeEstimate
  \/ FinalizeMarkers
  \/ TakeData
  \/ \E frameId \in FrameIds : CallerDeletesFrame(frameId)
  \/ \E frameId \in FrameIds, navigationId \in NavigationIds :
       CallerDeletesNavigation(frameId, navigationId)
  \/ \E frameId \in FrameIds, navigationId \in NavigationIds,
        metricName \in {FCP, FP, L, LCP, DCL, TTI, TBT} :
       CallerDeletesMetric(frameId, navigationId, metricName)
  \/ CallerShiftsMarker

SnapshotSpec == SnapshotInit /\ [][SnapshotNext]_vars

(* C19: the object returned by data() shares no mutable structure with the *)
(* handler: an edit of the object by the caller does not change what a     *)
(* later data() returns, and a later handleEvent, finalize or reset does   *)
(* not change what the object shows.  The program does not keep to it: the *)
(* navigation maps and metric maps of the object are the handler's own.    *)
C19_SnapshotIsolated ==
  [][snapshot.taken =>
       /\ snapshot'.edits # snapshot.edits => Data' = Data
       /\ snapshot'.edits = snapshot.edits =>
            Shown(snapshot', metricScoresByFrameId') = Shown(snapshot, metricScoresByFrameId)
    ]_vars

(* C20: a second finalize() with no reset() and no handleEvent since the   *)
(* first either fails or leaves data() as the first left it: the same      *)
(* scores under the same keys, every metric map in the same iteration      *)
(* order, the same marker sequence.  The program does not keep to it: the  *)
(* second pass stores the scores of the buffered events anew, which moves  *)
(* them behind the entries it does not store anew.                         *)
C20_SecondFinalizeChangesNothing ==
  (FinalizeEnded /\ atFinalize.repeated) =>
    \/ outcome = "failed"
    \/ Data = atFinalize.data

----------------------------------------------------------------------------
\* The metric maps of the table, one per (frame, navigation) pair.
MetricMaps(table) ==
  {MetricsOf(table, pair[1], pair[2]) : pair \in Range(TablePairs(table))}

\* The (frame, navigation) pairs that have a metric map; every other pair
\* has no score.
StoredPairs == Range(TablePairs(metricScoresByFrameId))

\* The entries of the metric map run in non-decreasing order of the
\* timestamp of their source event, and an entry without source event is
\* the last one.
AscendingBySource(metrics) ==
  \A i, j \in DOMAIN metrics :
    i < j =>
      /\ metrics[i].val.event # NoEvent
      /\ metrics[j].val.event # NoEvent =>
           metrics[i].val.event.ts <= metrics[j].val.event.ts

(* C21: after reset, any sequence of handleEvent calls and one successful  *)
(* finalize, every per-navigation metric map iterates its scores in        *)
(* non-decreasing order of the timestamp of their source event, an         *)
(* estimated TBT, which has none, last; also when a key was stored several *)
(* times and when a later LCP candidate was discarded.                     *)
C21_MetricMapAscending ==
  (FinalizeSucceeded /\ finalizeCalls = 1) =>
    \A metrics \in MetricMaps(metricScoresByFrameId) : AscendingBySource(metrics)

\* One finalize has succeeded over an FCP event, an InteractiveTime event
\* after it and a second FCP event of the same navigation after that: the
\* FCP entry, stored twice, comes behind the TTI and TBT entries.
C21_Witness ==
  /\ FinalizeSucceeded
  /\ finalizeCalls = 1
  /\ \E metrics \in MetricMaps(metricScoresByFrameId) :
       /\ Len(metrics) = 3
       /\ metrics[1].key = TTI
       /\ metrics[3].key = FCP
       /\ metrics[3].val.event.ts > metrics[1].val.event.ts
       /\ \E e \in Range(pageLoadEventsArray) :
            /\ e.name = FirstContentfulPaint
            /\ e.ts < metrics[1].val.event.ts
            /\ ScoredFor(e, <<metrics[3].val.event.frame,
                             metrics[3].val.navigation.navigationId>>)

----------------------------------------------------------------------------
\* The arrival orders of the events fed.
ArrivalOrders(events) ==
  {order \in [DOMAIN events -> Range(events)] : Range(order) = Range(events)}

\* One finalize has ended, well or not, on everything fed since the reset.
FirstFinalizeEnded == FinalizeEnded /\ finalizeCalls = 1

\* What the handler holds is what one finalize yields for the arrival order.
SameResult(order) ==
  LET other == FreshFinalize(order)
  IN  /\ other.threw = (outcome = "failed")
      /\ other.metricScoresByFrameId = metricScoresByFrameId
      /\ other.allMarkerEvents = allMarkerEvents

\* No two of the events carry the same timestamp.
DistinctTimestamps(events) ==
  \A i, j \in DOMAIN events : i # j => events[i].ts # events[j].ts

(* C22 as claimed: the result of finalize does not depend on the order in  *)
(* which the events were fed, also when several events carry the same      *)
(* timestamp.  Among events of one timestamp the stable sort keeps the     *)
(* arrival order, and the one fed last is the one whose score is kept.     *)
C22_Claimed ==
  FirstFinalizeEnded => \A order \in ArrivalOrders(fed) : SameResult(order)

(* C22: for events of pairwise distinct timestamps the result of finalize  *)
(* does not depend on the order in which they were fed: every arrival      *)
(* order of them yields the same metric table, with the same scores, the   *)
(* same source events and the same entry order, and the same marker        *)
(* sequence.                                                               *)
C22_OrderIndependentWithoutTies ==
  (FirstFinalizeEnded /\ DistinctTimestamps(fed)) =>
    \A order \in ArrivalOrders(fed) : SameResult(order)

\* Three events of distinct timestamps were fed latest first, and finalize
\* has stored scores of two metrics for one navigation.
C22_Witness ==
  /\ FirstFinalizeEnded
  /\ outcome = "ok"
  /\ DistinctTimestamps(fed)
  /\ Len(fed) = 3
  /\ fed[1].ts > fed[2].ts
  /\ fed[2].ts > fed[3].ts
  /\ \E metrics \in MetricMaps(metricScoresByFrameId) : Len(metrics) >= 2
  /\ allMarkerEvents # <<>>

----------------------------------------------------------------------------
\* The classification the specification gives the score of a source event:
\* the band of the time elapsed since the navigation, for TBT the band of
\* the reported blocking time; none for FP, DCL and Load.
ExpectedClassification(score) ==
  LET elapsed == score.event.ts - score.navigation.ts
  IN  CASE score.metricName = "FCP" -> Banded(elapsed, 1800000, 3000000)
        [] score.metricName = "LCP" -> Banded(elapsed, 2500000, 4000000)
        [] score.metricName = "TTI" -> Banded(elapsed, 3800000, 7300000)
        [] score.metricName = "TBT" ->
             Banded(score.event.total_blocking_time_ms * 1000, 200000, 600000)
        [] score.metricName \in {"FP", "DCL", "L"} -> "unclassified"

(* C23: every MetricScore with a source event carries the navigation the   *)
(* event resolves to and the classification the scorer of its metric gives *)
(* event.ts - navigation.ts (for TBT: total_blocking_time_ms * 1000); the  *)
(* scores of FP, DCL and Load are always UNCLASSIFIED, those of FCP, LCP,  *)
(* TTI and TBT never.                                                      *)
C23_ClassificationOfScores ==
  \A score \in ScoresOf(metricScoresByFrameId) :
    /\ score.event # NoEvent =>
         /\ NavigationResolved(score.event)
         /\ score.navigation.navigationId = ResolvedNavigationId(score.event)
         /\ score.navigation \in {Nav1, Nav2, Nav3}
         /\ score.classification = ExpectedClassification(score)
    /\ score.metricName \in {"FP", "DCL", "L"} => score.classification = "unclassified"
    /\ score.metricName \in {"FCP", "LCP", "TTI", "TBT"} => score.classification # "unclassified"

\* The table holds a DCL score of an event 1.5 s after its navigation, and
\* a TTI score that is not good next to a reported TBT score that is.
C23_Witness ==
  /\ \E score \in ScoresOf(metricScoresByFrameId) :
       /\ score.metricName = DCL
       /\ score.event.ts - score.navigation.ts = 1500000
       /\ score.classification = UNCLASSIFIED
  /\ \E tti, tbt \in ScoresOf(metricScoresByFrameId) :
       /\ tti.metricName = TTI
       /\ tti.classification = OK
       /\ tbt.metricName = TBT
       /\ tbt.event = tti.event
       /\ tbt.classification = GOOD

----------------------------------------------------------------------------
\* The pair has an FCP score and no InteractiveTime event was scored for it.
AwaitsEstimate(pair) ==
  HasScore(metricScoresByFrameId, pair, FCP) /\ ~Reported(pair)

\* The pair has an FCP score and no TBT score.
LacksTBT(pair) ==
  HasScore(metricScoresByFrameId, pair, FCP) /\ ~HasScore(metricScoresByFrameId, pair, TBT)

\* The process of the source event of the pair's FCP score.
FCPProcess(pair) == ScoreAt(metricScoresByFrameId, pair, FCP).event.pid

(* C24 as claimed: when a pair has an FCP score and no TBT score and       *)
(* Renderer lacks the main-thread data of the process of the FCP event,    *)
(* the absence of a process record included, finalize fails; it never      *)
(* skips the pair silently.                                                *)
C24_Claimed ==
  FinalizeEnded =>
    \A pair \in StoredPairs :
      (/\ LacksTBT(pair)
       /\ ~RendererKnows(FCPProcess(pair)) \/ MainThreadDataMissing(FCPProcess(pair)))
        => outcome = "failed"

(* C24, amended: when a pair has an FCP score and no TBT score, and        *)
(* Renderer has a record of the process of the FCP event without a thread  *)
(* named CrRendererMain, without call tree, with a root id without node or *)
(* with a root node whose event index has no event, finalize fails: after  *)
(* a finalize that succeeded, a pair with an FCP score and no TBT score is *)
(* one whose process Renderer has no record of at all.  Such a pair is     *)
(* skipped silently: finalize does not fail over it, and it gets no TBT.   *)
(* In the finalize that follows a reset the same holds of every pair with  *)
(* an FCP score for which no InteractiveTime event was scored.             *)
C24_MissingMainThreadDataIsFatal ==
  /\ FinalizeEnded =>
       \A pair \in StoredPairs :
         LacksTBT(pair) =>
           /\ MainThreadDataMissing(FCPProcess(pair)) => outcome = "failed"
           /\ outcome = "ok" => ~RendererKnows(FCPProcess(pair))
  /\ FirstFinalizeEnded =>
       \A pair \in StoredPairs :
         AwaitsEstimate(pair) =>
           /\ MainThreadDataMissing(FCPProcess(pair)) => outcome = "failed"
           /\ ~RendererKnows(FCPProcess(pair)) => ~HasScore(metricScoresByFrameId, pair, TBT)

\* finalize has stored the estimate of one pair and has then failed over a
\* pair whose FCP event is of a process with a root node whose event index
\* has no event.
C24_Witness ==
  /\ FirstFinalizeEnded
  /\ outcome = "failed"
  /\ \E score \in ScoresOf(metricScoresByFrameId) : score.estimated
  /\ \E pair \in StoredPairs :
       /\ AwaitsEstimate(pair)
       /\ ~HasScore(metricScoresByFrameId, pair, TBT)
       /\ HasMainThread(ScoreAt(metricScoresByFrameId, pair, FCP).event.pid)
       /\ LET main == NamedMain(ScoreAt(metricScoresByFrameId, pair, FCP).event.pid)
          IN  /\ main.tree.defined
              /\ \A rootId \in Range(main.tree.roots) : rootId \in DOMAIN main.tree.nodes
              /\ \E rootId \in Range(main.tree.roots) :
                   main.tree.nodes[rootId].eventIndex + 1 \notin DOMAIN main.events

\* finalize has succeeded although a pair has an FCP score of a process
\* that Renderer has no record of, and no reported TBT.
C24_SkippedWitness ==
  /\ FirstFinalizeEnded
  /\ outcome = "ok"
  /\ \E pair \in Pairs :
       /\ AwaitsEstimate(pair)
       /\ ~RendererKnows(ScoreAt(metricScoresByFrameId, pair, FCP).event.pid)

----------------------------------------------------------------------------
(* One run of the pipeline: the driver streams the events to the handler,  *)
(* then finalizes the handlers, each one after the handlers it declares in *)
(* deps().                                                                 *)

\* The events of the run.
PipelineEvents == {e \in TBTEvents : e.id \in {11, 12, 14, 15}}

PipelineInit ==
  /\ trace = "tbt"
  /\ fed = <<>>
  /\ pageLoadEventsArray = <<>>
  /\ metricScoresByFrameId = <<>>
  /\ allMarkerEvents = <<>>
  /\ selectedLCPCandidateEvents = {}
  /\ pc = "idle"
  /\ cursor = 0
  /\ outcome = "none"
  /\ finalizeCalls = 0
  /\ fedAtFinalize = 0
  /\ probe = ProbeOf(0)
  /\ atFinalize = NoCall
  /\ resetAfterFailure = FALSE
  /\ snapshot = NoSnapshot
  /\ upstream = Unfinalized
  /\ timeline = NoTimeline
  /\ TestRunnerIdle

\* The streaming phase: no handler has finalized yet.
PipelineHandleEvent(event) ==
  /\ upstream.finalized = {}
  /\ finalizeCalls = 0
  /\ HandleEvent(event)

\* The driver finalizes Meta or Renderer, which from then on hands out its
\* finalized data.
DependencyFinalizes(name) ==
  /\ pc = "idle"
  /\ name \notin upstream.finalized
  /\ upstream' = [finalized |-> upstream.finalized \cup {name},
                  meta |-> IF name = "Meta" THEN MetaData ELSE upstream.meta,
                  renderer |-> IF name = "Renderer" THEN RendererData ELSE upstream.renderer]
  /\ UNCHANGED <<trace, fed, pageLoadEventsArray, metricScoresByFrameId, allMarkerEvents,
                 selectedLCPCandidateEvents, pc, cursor, outcome, finalizeCalls,
                 fedAtFinalize, probe, atFinalize, resetAfterFailure, snapshot,
                 besideHandler>>

\* The driver calls finalize of the handler once every handler of deps()
\* has finalized.
PipelineFinalize ==
  /\ \A i \in DOMAIN deps : deps[i] \in upstream.finalized
  /\ finalizeCalls = 0
  /\ FinalizeBegin

PipelineNext ==
  \/ \E event \in PipelineEvents \ {fed[i] : i \in DOMAIN fed} : PipelineHandleEvent(event)
  \/ \E name \in {"Meta", "Renderer"} : DependencyFinalizes(name)
  \/ PipelineFinalize
  \/ FinalizeScore
  \/ FinalizeEstimate
  \/ FinalizeMarkers

PipelineSpec == PipelineInit /\ [][PipelineNext]_vars

\* finalize of the handler has been called and has not returned yet.
FinalizeRunning == pc # "idle"

(* C25: deps() is the list <<Meta, Renderer>> in every state; in a run of  *)
(* the pipeline the finalize of the handler starts only after the finalize *)
(* of Meta and of Renderer has completed, so that while it runs the data   *)
(* it reads from them is their finalized data; and no step of finalize     *)
(* changes the data of Meta or Renderer.                                   *)
C25_FinalizeAfterDependencies ==
  /\ [](deps = <<"Meta", "Renderer">>)
  /\ []((FinalizeRunning \/ atFinalize.called) =>
          /\ {"Meta", "Renderer"} \subseteq upstream.finalized
          /\ upstream.meta = MetaData
          /\ upstream.renderer = RendererData)
  /\ [][(FinalizeRunning \/ pc' # "idle") => upstream' = upstream]_vars

\* The run has ended: Meta and Renderer finalized, then the handler, which
\* has read both: it scored an FCP event and estimated its TBT.
C25_Witness ==
  /\ FinalizeSucceeded
  /\ upstream = Finalized
  /\ \E score \in ScoresOf(metricScoresByFrameId) : score.estimated

----------------------------------------------------------------------------
\* The metrics that every scored event of their kind stores anew, and the
\* kind of event each is stored from.
ReplacedMetrics == {"FCP", "FP", "DCL", "L", "TTI"}

KindOfMetric ==
  [FCP |-> "firstContentfulPaint", FP |-> "firstPaint", DCL |-> "MarkDOMContent",
   L |-> "MarkLoad", TTI |-> "InteractiveTime"]

\* The positions of the arrival order that hold an event of the metric's
\* kind scored for the pair.
FedFor(metricName, pair) ==
  {i \in DOMAIN fed : fed[i].name = KindOfMetric[metricName] /\ ScoredFor(fed[i], pair)}

\* The pairs that an event fed can be scored for: its frame, with a
\* navigation of Meta.
PairsFedFor == {<<fed[i].frame, navigationId>> : i \in DOMAIN fed, navigationId \in NavigationIds}

\* Position i holds the event that is processed last among those of the
\* positions: it has the greatest timestamp, and of the events with that
\* timestamp it was fed last.
ProcessedLast(i, positions) ==
  /\ i \in positions
  /\ \A j \in positions \ {i} :
       \/ fed[j].ts < fed[i].ts
       \/ fed[j].ts = fed[i].ts /\ j < i

(* C26: for FCP, FP, DCL, Load and TTI, when one or several events of the  *)
(* kind were scored for a (frame, navigation) pair, after finalize the     *)
(* metric map of the pair holds exactly one entry of that metric name: the *)
(* score of the event with the greatest timestamp, among events of that    *)
(* timestamp the one fed last.                                             *)
C26_LastProcessedEventWins ==
  FinalizeSucceeded =>
    \A pair \in PairsFedFor : \A metricName \in ReplacedMetrics :
      FedFor(metricName, pair) # {} =>
        /\ EntriesOf(metricScoresByFrameId, pair, metricName) = 1
        /\ \E i \in FedFor(metricName, pair) :
             /\ ProcessedLast(i, FedFor(metricName, pair))
             /\ ScoreAt(metricScoresByFrameId, pair, metricName).event = fed[i]
             /\ ScoreAt(metricScoresByFrameId, pair, metricName).score =
                  FormatSeconds(fed[i].ts - ScoreAt(metricScoresByFrameId, pair,
                                                    metricName).navigation.ts)

\* Two FCP events of one timestamp and different processes were scored for
\* one pair, then an event of another kind: the FCP score is the one of the
\* event fed second.
C26_Witness ==
  /\ FinalizeSucceeded
  /\ Len(fed) = 3
  /\ fed[1].ts = fed[2].ts
  /\ fed[1].pid # fed[2].pid
  /\ \E pair \in Pairs :
       /\ FedFor("FCP", pair) = {1, 2}
       /\ FedFor("TTI", pair) = {3}
       /\ ScoreAt(metricScoresByFrameId, pair, FCP).event = fed[2]

----------------------------------------------------------------------------
\* The LCP candidates of the marker sequence, by position.
CandidatesAmongMarkers ==
  {i \in DOMAIN allMarkerEvents :
     allMarkerEvents[i].name = "largestContentfulPaint::Candidate"}

\* The pair the candidate is scored for, if it is scored.
PairOfCandidate(e) == <<e.frame, e.navigationId>>

(* C27: after a finalize that succeeds the marker sequence holds no LCP    *)
(* candidate that was dropped or superseded: every LCP candidate in it was *)
(* scored, is the source event of the LCP score stored for the main frame  *)
(* and a navigation, and no scored candidate of that pair has a greater    *)
(* index; no two candidates in it are of the same navigation; and it holds *)
(* no InteractiveTime event.                                               *)
C27_MarkersHoldFinalCandidatesOnly ==
  FinalizeSucceeded =>
    /\ \A i \in CandidatesAmongMarkers :
         LET e == allMarkerEvents[i]
         IN  /\ ScoredFor(e, PairOfCandidate(e))
             /\ \E navigationId \in NavigationIds :
                  /\ HasScore(metricScoresByFrameId, <<MetaData.mainFrameId, navigationId>>, LCP)
                  /\ ScoreAt(metricScoresByFrameId, <<MetaData.mainFrameId, navigationId>>,
                             LCP).event = e
                  /\ ScoreAt(metricScoresByFrameId, <<MetaData.mainFrameId, navigationId>>,
                             LCP).navigation.navigationId = navigationId
             /\ \A j \in ScoredAt(pageLoadEventsArray, LargestContentfulPaintCandidate,
                                  PairOfCandidate(e)) :
                  pageLoadEventsArray[j].candidateIndex <= e.candidateIndex
    /\ \A i, j \in CandidatesAmongMarkers :
         i # j => allMarkerEvents[i].navigationId # allMarkerEvents[j].navigationId
    /\ \A i \in DOMAIN allMarkerEvents : allMarkerEvents[i].name # "InteractiveTime"

\* Two candidates of one navigation of the main frame and an InteractiveTime
\* event of the main frame were fed; the later candidate has the smaller
\* index and was dropped, and the markers hold the earlier one alone.
C27_Witness ==
  /\ FinalizeSucceeded
  /\ Len(allMarkerEvents) = 1
  /\ CandidatesAmongMarkers = {1}
  /\ \E e \in Range(pageLoadEventsArray) :
       /\ e.name = LargestContentfulPaintCandidate
       /\ PairOfCandidate(e) = PairOfCandidate(allMarkerEvents[1])
       /\ e.ts > allMarkerEvents[1].ts
       /\ e.candidateIndex < allMarkerEvents[1].candidateIndex
  /\ \E e \in Range(pageLoadEventsArray) :
       e.name = InteractiveTime /\ e.frame = MetaData.mainFrameId

----------------------------------------------------------------------------
\* The position of the metric name in the metric map; 0 when it has none.
PositionOf(metrics, metricName) ==
  IF MapHas(metrics, metricName)
    THEN CHOOSE k \in DOMAIN metrics : metrics[k].key = metricName
    ELSE 0

\* The metric map holds a TBT score that is no estimate.
HasReportedTBT(metrics) == MapHas(metrics, TBT) /\ ~MapGet(metrics, TBT).estimated

(* C28: in every state, for every (frame, navigation) pair, a TTI score    *)
(* exists iff a TBT score with estimated unset exists; both then carry the *)
(* same InteractiveTime source event and the same navigation, and the TTI  *)
(* entry comes immediately before the TBT entry in the metric map.         *)
C28_TTIComesWithReportedTBT ==
  \A pair \in StoredPairs :
    LET metrics == MetricsOf(metricScoresByFrameId, pair[1], pair[2])
    IN  /\ MapHas(metrics, TTI) <=> HasReportedTBT(metrics)
        /\ MapHas(metrics, TTI) =>
             /\ MapGet(metrics, TTI).event.name = "InteractiveTime"
             /\ MapGet(metrics, TTI).event = MapGet(metrics, TBT).event
             /\ MapGet(metrics, TTI).navigation = MapGet(metrics, TBT).navigation
             /\ PositionOf(metrics, TBT) = PositionOf(metrics, TTI) + 1

\* A finalize had estimated the TBT of a pair; an InteractiveTime event was
\* fed then, and a second finalize has put the TTI score and the reported
\* TBT in the place of the estimate, behind the FCP score.
C28_Witness ==
  /\ FinalizeSucceeded
  /\ finalizeCalls = 2
  /\ \E pair \in Pairs :
       LET before == MetricsOf(atFinalize.data.metricScoresByFrameId, pair[1], pair[2])
           metrics == MetricsOf(metricScoresByFrameId, pair[1], pair[2])
       IN  /\ MapHas(before, TBT)
           /\ MapGet(before, TBT).estimated
           /\ HasReportedTBT(metrics)
           /\ PositionOf(metrics, FCP) = 1
           /\ PositionOf(metrics, TTI) = 2
           /\ PositionOf(metrics, TBT) = 3

----------------------------------------------------------------------------
\* The kind of event every metric but an estimate is stored from.
SourceKindOf ==
  [FCP |-> "firstContentfulPaint", FP |-> "firstPaint", DCL |-> "MarkDOMContent",
   L |-> "MarkLoad", LCP |-> "largestContentfulPaint::Candidate",
   TTI |-> "InteractiveTime", TBT |-> "InteractiveTime"]

(* C29: in every state a MetricScore has estimated set iff it has no       *)
(* source event; such a score has the metric name TBT and the navigation   *)
(* of the FCP score of its (frame, navigation) pair; every other score     *)
(* carries a source event of the kind of its metric name (TTI and TBT:     *)
(* InteractiveTime) and a navigation whose id is the key it is stored      *)
(* under.                                                                  *)
C29_EstimatedIffNoSourceEvent ==
  \A pair \in Range(TablePairs(metricScoresByFrameId)) :
    LET metrics == MetricsOf(metricScoresByFrameId, pair[1], pair[2])
    IN  \A k \in DOMAIN metrics :
          LET score == metrics[k].val
          IN  /\ score.estimated <=> score.event = NoEvent
              /\ score.metricName = metrics[k].key
              /\ score.estimated =>
                   /\ score.metricName = "TBT"
                   /\ MapHas(metrics, FCP)
                   /\ score.navigation = MapGet(metrics, FCP).navigation
              /\ ~score.estimated =>
                   /\ score.event.name = SourceKindOf[score.metricName]
                   /\ score.navigation.navigationId = pair[2]

\* The table holds an estimate for one navigation and, for another, a TBT
\* score reported by an InteractiveTime event.
C29_Witness ==
  /\ \E score \in ScoresOf(metricScoresByFrameId) :
       score.estimated /\ score.navigation = Nav2
  /\ \E score \in ScoresOf(metricScoresByFrameId) :
       /\ score.metricName = TBT
       /\ score.event.name = InteractiveTime
       /\ score.navigation = Nav1

----------------------------------------------------------------------------
\* The finalize that was called last has given the pair an estimated TBT
\* score: the pair has one, and had no TBT score when finalize began.
Estimated(pair) ==
  /\ HasScore(metricScoresByFrameId, pair, TBT)
  /\ ScoreAt(metricScoresByFrameId, pair, TBT).estimated
  /\ ~HasScore(atFinalize.data.metricScoresByFrameId, pair, TBT)

\* The source event of the FCP score of the pair.
FCPOf(pair) == ScoreAt(metricScoresByFrameId, pair, FCP).event

\* The root nodes of the thread whose task is a non-instant RunTask that
\* ends at or after the timestamp, however late it starts.
RootsEndingFrom(thread, ts) ==
  {r \in Range(thread.tree.roots) :
     LET task == thread.events[thread.tree.nodes[r].eventIndex + 1]
     IN  task.name = "RunTask" /\ task.ph \notin {"I", "i"} /\ task.ts + task.dur >= ts}

\* The estimate of the pair, in microseconds rounded to 10.
EstimateOf(pair) == ScoreAt(metricScoresByFrameId, pair, TBT).score.hundredths * 10

(* C30: the TBT estimate that finalize gives a pair counts every root task *)
(* of the main thread of the FCP event's process that is a non-instant     *)
(* RunTask and ends at or after FCP, up to the end of the trace, whether   *)
(* or not the task starts after a later navigation; hence of two pairs     *)
(* that both get an estimate and whose FCP events are of the same process, *)
(* the one with the earlier FCP has the greater or equal estimate.         *)
C30_EstimateRunsToEndOfTrace ==
  FinalizeSucceeded =>
    /\ \A pair \in StoredPairs :
         Estimated(pair) =>
           LET main == MainThreadOf(FCPOf(pair).pid)
           IN  ScoreAt(metricScoresByFrameId, pair, TBT).score =
                 FormatMilliseconds(
                   BlockingSum(main, RootsEndingFrom(main, FCPOf(pair).ts), FCPOf(pair).ts))
    /\ \A first, second \in StoredPairs :
         (/\ Estimated(first)
          /\ Estimated(second)
          /\ FCPOf(first).pid = FCPOf(second).pid
          /\ FCPOf(first).ts <= FCPOf(second).ts) =>
           EstimateOf(first) >= EstimateOf(second)

\* Two navigations of one frame have an FCP event of the same process and
\* an estimate each; the estimate of the first is the greater one, and it
\* counts a task that starts after the second navigation has started.
C30_Witness ==
  /\ FinalizeSucceeded
  /\ \E first, second \in Pairs :
       /\ Estimated(first)
       /\ Estimated(second)
       /\ FCPOf(first).pid = FCPOf(second).pid
       /\ FCPOf(first).ts < FCPOf(second).ts
       /\ EstimateOf(first) > EstimateOf(second)
       /\ LET main == MainThreadOf(FCPOf(first).pid)
              started == ScoreAt(metricScoresByFrameId, second, FCP).navigation.ts
          IN  \E r \in RootsEndingFrom(main, FCPOf(first).ts) :
                LET task == main.events[main.tree.nodes[r].eventIndex + 1]
                IN  /\ task.ts > started
                    /\ started > FCPOf(first).ts
                    /\ BlockingPortion(task, FCPOf(first).ts) > 0


----------------------------------------------------------------------------
\* An LCP candidate that carries candidateIndex 0 and whose navigation and
\* process window are in Meta.
CarriesIndexZero(e) ==
  /\ e.name = "largestContentfulPaint::Candidate"
  /\ e.candidateIndex = 0
  /\ NavigationResolved(e)
  /\ InRecordedWindow(e)

(* C31: a candidate that carries candidateIndex 0, with its navigation and *)
(* process window present, does not make finalize fail and is scored like  *)
(* any other candidate: a finalize over such a candidate and events that   *)
(* are well-formed with complete lineage and carry an index of 1 or more   *)
(* succeeds and leaves an LCP score for the candidate's navigation.  The   *)
(* program does not keep to it: `!candidateIndex` (line 221) holds of 0 as *)
(* it holds of an absent field, and finalize fails.                        *)
C31_IndexZeroIsScored ==
  (/\ FinalizeEnded
   /\ \E e \in Range(pageLoadEventsArray) : CarriesIndexZero(e)
   /\ \A e \in Range(pageLoadEventsArray) :
        \/ CarriesIndexZero(e)
        \/ WellFormedWithLineage(e) /\ e.candidateIndex # 0) =>
    /\ outcome = "ok"
    /\ \A e \in Range(pageLoadEventsArray) :
         CarriesIndexZero(e) =>
           HasScore(metricScoresByFrameId, <<e.frame, e.navigationId>>, LCP)

----------------------------------------------------------------------------
(* getFirstFCPTimestampFromModelData (lines 413-442), called with the data *)
(* of Meta and of the handler once the handler has finalized.              *)

\* The loop of lines 427-439, from the i-th navigation of the main frame on.
\* `if (fcpTimestamp)` is false for a score without FCP, for a score
\* without event and for the timestamp 0; `!firstFCPEventInTimeline` is
\* true for null and for 0.
RECURSIVE FirstFCPFrom(_, _, _)
FirstFCPFrom(metricsForMainFrameByNavigationID, i, firstFCPEventInTimeline) ==
  IF i > Len(metricsForMainFrameByNavigationID) THEN firstFCPEventInTimeline
  ELSE LET metrics == metricsForMainFrameByNavigationID[i].val
           hasEvent == MapHas(metrics, FCP) /\ MapGet(metrics, FCP).event # NoEvent
           fcpTimestamp == MapGet(metrics, FCP).event.ts
           next ==
             IF hasEvent /\ fcpTimestamp # 0
               THEN IF firstFCPEventInTimeline.null \/ firstFCPEventInTimeline.ts = 0
                      THEN Timestamp(fcpTimestamp)
                      ELSE IF fcpTimestamp < firstFCPEventInTimeline.ts
                             THEN Timestamp(fcpTimestamp)
                             ELSE firstFCPEventInTimeline
               ELSE firstFCPEventInTimeline
       IN  FirstFCPFrom(metricsForMainFrameByNavigationID, i + 1, next)

\* getFirstFCPTimestampFromModelData (lines 420-442)
getFirstFCPTimestampFromModelData(mainFrameID, table) ==
  IF ~MapHas(table, mainFrameID) THEN NullTimestamp
  ELSE FirstFCPFrom(MapGet(table, mainFrameID), 1, NullTimestamp)

\* FCP events of the main frame, one of them at timestamp 0, one of another
\* frame, and a FirstPaint event of the main frame.
TimelineEvents ==
  { Event(71, FirstContentfulPaint, 0, "p1", "f1", "n1", NoIndex, 0),
    Event(72, FirstContentfulPaint, 6000000, "p1", "f1", "n2", NoIndex, 0),
    Event(73, FirstContentfulPaint, 1200000, "p3", "f2", "n3", NoIndex, 0),
    Event(74, FirstContentfulPaint, 1000000, "p1", "f1", "n1", NoIndex, 0),
    Event(75, FirstPaint, 800000, "p1", "f1", "n1", NoIndex, 0) }

\* The trace is still being processed: nobody has asked for the first FCP
\* timestamp yet.
Processing == ~timeline.called

\* Once the trace is processed, the caller asks for the first FCP timestamp
\* of the data the handler holds after a finalize that did not fail.
GetFirstFCPTimestamp ==
  /\ pc = "idle"
  /\ outcome # "failed"
  /\ timeline' = [called |-> TRUE,
                  mainFrameId |-> upstream.meta.mainFrameId,
                  metricScoresByFrameId |-> Data.metricScoresByFrameId,
                  result |-> getFirstFCPTimestampFromModelData(
                               upstream.meta.mainFrameId, Data.metricScoresByFrameId)]
  /\ UNCHANGED <<handlerSide, testRunnerVars>>

TimelineInit == Init /\ trace = "tbt"

TimelineNext ==
  \/ Processing /\ Reset
  \/ \E event \in TimelineEvents \ {fed[i] : i \in DOMAIN fed} : Processing /\ HandleEvent(event)
  \/ Processing /\ FinalizeBegin
  \/ Processing /\ FinalizeScore
  \/ Processing /\ FinalizeEstimate
  \/ Processing /\ FinalizeMarkers
  \/ GetFirstFCPTimestamp

TimelineSpec == TimelineInit /\ [][TimelineNext]_vars

\* The timestamps of the source events of the FCP scores that the table the
\* function was called with holds for the frame.
FCPTimestampsOf(table, frameId) ==
  {score.event.ts : score \in {x \in ScoresOf(table) :
                                 /\ x.metricName = FCP
                                 /\ x.event # NoEvent
                                 /\ x.event.frame = frameId}}

(* C32: getFirstFCPTimestampFromModelData returns the smallest timestamp   *)
(* among the source events of the FCP scores of the navigations of the     *)
(* main frame, and null iff the main frame has no FCP score with a source  *)
(* event; the FCP scores of other frames do not count.  The program does   *)
(* not keep to it: `if (fcpTimestamp)` (line 431) skips an FCP event whose *)
(* timestamp is 0 as it skips a score without event.                       *)
C32_FirstFCPOfMainFrame ==
  timeline.called =>
    LET stamps == FCPTimestampsOf(timeline.metricScoresByFrameId, timeline.mainFrameId)
    IN  /\ timeline.result.null <=> stamps = {}
        /\ ~timeline.result.null =>
             /\ timeline.result.ts \in stamps
             /\ \A ts \in stamps : timeline.result.ts <= ts

\* What the function keeps to: the same, of the FCP events of the main
\* frame whose timestamp is not 0.
C32_FirstNonZeroFCPOfMainFrame ==
  timeline.called =>
    LET stamps == FCPTimestampsOf(timeline.metricScoresByFrameId, timeline.mainFrameId) \ {0}
    IN  /\ timeline.result.null <=> stamps = {}
        /\ ~timeline.result.null =>
             /\ timeline.result.ts \in stamps
             /\ \A ts \in stamps : timeline.result.ts <= ts

----------------------------------------------------------------------------
(* ApplicationTestRunner.runAfterResourcesAreFinished and                  *)
(* resourceMatchingURL (ResourcesTestRunner.js, lines 44-67 and 101-113).  *)
(* A url is the sequence of its characters.                                *)

\* What String.prototype.indexOf returns when there is no occurrence.
NotFound == -1

\* The urls of the resources that the tree comes to hold.
ResourceUrls ==
  { <<"x", "/", "a">>, <<"x", "/", "b">>, <<"y", "/", "a", "b">> }

\* The urls a test waits for: parts of one or of several resource urls, of
\* none, and the empty string.
RequestedUrls == { <<"a">>, <<"b">>, <<"a", "b">>, <<"c">>, <<>> }

\* The lists of urls a test calls runAfterResourcesAreFinished with.
UrlLists == UNION {[1..n -> RequestedUrls] : n \in 0..MaxUrls}

\* resource.url.indexOf(resourceURL) (line 106): the index of the first
\* occurrence, from 0, or -1.
IndexOf(url, part) ==
  LET at == {i \in 0..(Len(url) - Len(part)) : SubSeq(url, i + 1, i + Len(part)) = part}
  IN  IF at = {} THEN NotFound ELSE CHOOSE i \in at : \A j \in at : i <= j

\* resourceMatchingURL (lines 101-113): forAllResources visits the
\* resources of the tree until visit returns true; the result is the
\* resource visit stopped at, or null.
resourceMatchingURL(tree, resourceURL) ==
  LET matching == {url \in tree : IndexOf(url, resourceURL) # NotFound}
  IN  IF matching = {} THEN [null |-> TRUE, url |-> <<>>]
      ELSE [null |-> FALSE, url |-> CHOOSE url \in matching : TRUE]

\* Mutant: checkResources leaves its listener registered.
CheckResources_KeepsListener(tree, urls, listens) ==
  LET left == {url \in urls : resourceMatchingURL(tree, url).null}
  IN  [resourceURLsMap |-> left, listening |-> listens, callback |-> left = {}]

\* checkResources (lines 47-60): every url of the set that a resource of
\* the tree matches is deleted; when none is left the listener is removed
\* and then the callback is invoked.
CheckResources(tree, urls, listens) ==
  LET left == {url \in urls : resourceMatchingURL(tree, url).null}
  IN  [resourceURLsMap |-> left,
       listening |-> IF left = {} THEN FALSE ELSE listens,
       callback |-> left = {}]

\* runAfterResourcesAreFinished (lines 44-67): the set is built, checked at
\* once, and checkResources becomes a listener when a url is left.  The
\* callback, when invoked, runs until CallbackReturns.
RunAfterResourcesAreFinished(urls) ==
  /\ runner = "idle"
  /\ resourceURLs' = urls
  /\ seen' = [atCall |-> resources, added |-> <<>>, callbackAt |-> 0]
  /\ LET r == CheckResources(resources, {urls[i] : i \in DOMAIN urls}, listening)
     IN  /\ resourceURLsMap' = r.resourceURLsMap
         /\ callbackRuns' = IF r.callback THEN callbackRuns + 1 ELSE callbackRuns
         /\ runner' = IF r.callback THEN "callback" ELSE "waiting"
         /\ listening' = IF r.resourceURLsMap # {} THEN TRUE ELSE r.listening
  /\ UNCHANGED <<handlerSide, timeline, resources>>

\* The tree gets a resource and dispatches ResourceAdded to its listeners,
\* also while the callback runs; checkResources, where it listens, runs.
ResourceAdded(url) ==
  /\ url \notin resources
  /\ runner # "idle" => Len(seen.added) < MaxAdded
  /\ resources' = resources \cup {url}
  /\ seen' = IF runner = "idle" THEN seen
             ELSE [seen EXCEPT !.added = Append(@, url),
                               !.callbackAt =
                                  IF listening /\ CheckResources(resources \cup {url},
                                                          resourceURLsMap, listening).callback
                                    THEN Len(seen.added) + 1 ELSE @]
  /\ IF listening
       THEN LET r == CheckResources(resources', resourceURLsMap, listening)
            IN  /\ resourceURLsMap' = r.resourceURLsMap
                /\ listening' = r.listening
                /\ callbackRuns' = IF r.callback THEN callbackRuns + 1 ELSE callbackRuns
                /\ runner' = IF r.callback THEN "callback" ELSE runner
       ELSE UNCHANGED <<resourceURLsMap, listening, callbackRuns, runner>>
  /\ UNCHANGED <<handlerSide, timeline, resourceURLs>>

\* A frame navigates: the tree drops its resources, and no ResourceAdded is
\* dispatched.
ResourcesRemoved ==
  /\ resources # {}
  /\ resources' = {}
  /\ UNCHANGED <<handlerSide, timeline, resourceURLs, resourceURLsMap, listening,
                 callbackRuns, runner, seen>>

\* The callback returns.
CallbackReturns ==
  /\ runner = "callback"
  /\ runner' = "done"
  /\ UNCHANGED <<handlerSide, timeline, resources, resourceURLs, resourceURLsMap,
                 listening, callbackRuns, seen>>

TestRunnerNext ==
  \/ \E urls \in UrlLists : RunAfterResourcesAreFinished(urls)
  \/ \E url \in ResourceUrls : ResourceAdded(url)
  \/ ResourcesRemoved
  \/ CallbackReturns

\* The handler stays as it is loaded.
TestRunnerInit == Init /\ trace = "tbt"

TestRunnerSpec == TestRunnerInit /\ [][TestRunnerNext]_vars

\* The part occurs in the url.
IsPartOf(part, url) ==
  \E before, after \in 0..Len(url) :
    /\ before + Len(part) + after = Len(url)
    /\ \A k \in 1..Len(part) : url[before + k] = part[k]

\* The urls of the resources the tree has held since the call.
SeenUrls == seen.atCall \cup Range(seen.added)

\* A resource that the tree held at the call or got since has matched the url.
HasBeenMatched(url) == \E resource \in SeenUrls : IsPartOf(url, resource)

\* Every url of the list has been matched.
AllMatched == \A i \in DOMAIN resourceURLs : HasBeenMatched(resourceURLs[i])

(* C33: runAfterResourcesAreFinished(urls, callback) never invokes         *)
(* callback twice, and has invoked it exactly when every url of the list   *)
(* has been matched by a resource of the tree: at the call when all are    *)
(* matched then (an empty list included), otherwise on the first           *)
(* ResourceAdded after which no url is unmatched.  checkResources is a     *)
(* listener exactly while some url is unmatched, its set being the         *)
(* unmatched urls; it is a listener no more when the callback is invoked,  *)
(* and no later ResourceAdded invokes the callback again.                  *)
C33_CallbackOnceWhenAllMatched ==
  /\ callbackRuns <= 1
  /\ runner = "idle" => callbackRuns = 0 /\ ~listening
  /\ runner # "idle" =>
       /\ callbackRuns = 1 <=> AllMatched
       /\ resourceURLsMap = {url \in Range(resourceURLs) : ~HasBeenMatched(url)}
       /\ listening <=> ~AllMatched
       /\ callbackRuns = 1 =>
            /\ ~listening
            /\ runner \in {"callback", "done"}
            /\ \A i \in DOMAIN resourceURLs :
                 \E resource \in seen.atCall \cup
                                   {seen.added[k] : k \in 1..seen.callbackAt} :
                   IsPartOf(resourceURLs[i], resource)
            /\ seen.callbackAt > 0 =>
                 \E i \in DOMAIN resourceURLs :
                   \A resource \in seen.atCall \cup
                                     {seen.added[k] : k \in 1..(seen.callbackAt - 1)} :
                     ~IsPartOf(resourceURLs[i], resource)

\* A test waited for two urls, one matched at the call by a resource that
\* the tree has dropped since; the second ResourceAdded after the call
\* matched the other and the callback ran once; a third ResourceAdded came
\* while the callback ran and the callback has returned.
C33_Witness ==
  /\ runner = "done"
  /\ callbackRuns = 1
  /\ Len(resourceURLs) = 2
  /\ seen.callbackAt = 2
  /\ Len(seen.added) = 3
  /\ \E i \in DOMAIN resourceURLs :
       /\ \E resource \in seen.atCall : IsPartOf(resourceURLs[i], resource)
       /\ \A resource \in resources : ~IsPartOf(resourceURLs[i], resource)

\* A test called with the empty list and an empty tree, and the callback
\* ran at the call.
C33_EmptyListWitness ==
  /\ runner # "idle"
  /\ resourceURLs = <<>>
  /\ seen.atCall = {}
  /\ seen.added = <<>>
  /\ callbackRuns = 1

====
